---------------------------- MODULE Spec2Model ----------------------------
(***************************************************************************)
(* chinese-numerals: conversion of signed integers to Chinese numeral      *)
(* text in the short, myriad, mid and long scales.                         *)
(*                                                                         *)
(* Representation.  A magnitude (u16, u32, u64, u128, BigUint) is held as  *)
(* its decimal digits, least significant first, without high zeros (zero   *)
(* is << >>): the magnitudes of the program exceed the integers of the     *)
(* model checker.  num % 10^k is then the low k digits and num / 10^k the  *)
(* digits above them.  A NumChar is held by its name, a char by its        *)
(* Unicode code point, a String as a sequence of code points.              *)
(***************************************************************************)
EXTENDS Integers, Sequences, FiniteSets, TLC

(***************************************************************************)
(* Decimal arithmetic on digit sequences.                                  *)
(***************************************************************************)
\* d without its high zeros
Norm(d) ==
    IF d = << >> THEN << >>
    ELSE IF d[Len(d)] # 0 THEN d
    ELSE LET nz == {i \in 1..Len(d) : d[i] # 0}
         IN  IF nz = {} THEN << >>
             ELSE SubSeq(d, 1, CHOOSE i \in nz : \A j \in nz : j <= i)

\* num % 10^k
ModPow10(d, k) == IF Len(d) <= k THEN d ELSE Norm(SubSeq(d, 1, k))

\* num / 10^k
DivPow10(d, k) == IF Len(d) <= k THEN << >> ELSE SubSeq(d, k + 1, Len(d))

\* num * 10^k
MulPow10(d, k) == IF d = << >> THEN << >> ELSE [i \in 1..k |-> 0] \o d

\* the digits of 10^k
Pow10(k) == [i \in 1..k |-> 0] \o <<1>>

\* the digits of 10^k - 1
Nines(k) == [i \in 1..k |-> 9]

\* a < b: fewer digits, or as many and the smaller digit where they first
\* differ from the top
Lt(a, b) ==
    IF Len(a) # Len(b) THEN Len(a) < Len(b)
    ELSE \E i \in 1..Len(a) :
             /\ a[i] < b[i]
             /\ \A j \in (i + 1)..Len(a) : a[j] = b[j]

\* a <= b
Le(a, b) == ~Lt(b, a)

\* the digits of a small integer literal
RECURSIVE Dec(_)
Dec(n) == IF n = 0 THEN << >> ELSE <<n % 10>> \o Dec(n \div 10)

\* the integer of a digit sequence that fits the model's integers
RECURSIVE Val(_)
Val(d) == IF d = << >> THEN 0 ELSE d[1] + 10 * Val(Tail(d))

(***************************************************************************)
(* characters.rs                                                           *)
(***************************************************************************)
NUM_CHARS ==
    << "Zero", "One", "Two", "Three", "Four", "Five", "Six", "Seven", "Eight",
       "Nine", "Shi", "Bai", "Qian", "Wan", "Yi", "Zhao", "Jing", "Gai", "Zi",
       "Rang", "Gou", "Jian", "Zheng", "Zai", "Neg" >>

\* NUM_CHARS[i], the array being indexed from 0
NumCharAt(i) == NUM_CHARS[i + 1]

NumChar == {NUM_CHARS[i] : i \in 1..Len(NUM_CHARS)}

to_lowercase_simp(c) ==
    CASE c = "Zero"  -> 38646
      [] c = "One"   -> 19968
      [] c = "Two"   -> 20108
      [] c = "Three" -> 19977
      [] c = "Four"  -> 22235
      [] c = "Five"  -> 20116
      [] c = "Six"   -> 20845
      [] c = "Seven" -> 19971
      [] c = "Eight" -> 20843
      [] c = "Nine"  -> 20061
      [] c = "Shi"   -> 21313
      [] c = "Bai"   -> 30334
      [] c = "Qian"  -> 21315
      [] c = "Wan"   -> 19975
      [] c = "Yi"    -> 20159
      [] c = "Zhao"  -> 20806
      [] c = "Jing"  -> 20140
      [] c = "Gai"   -> 22419
      [] c = "Zi"    -> 31213
      [] c = "Rang"  -> 31344
      [] c = "Gou"   -> 27807
      [] c = "Jian"  -> 28071
      [] c = "Zheng" -> 27491
      [] c = "Zai"   -> 36733
      [] c = "Neg"   -> 36127

to_uppercase_simp(c) ==
    CASE c = "One"   -> 22777
      [] c = "Two"   -> 36144
      [] c = "Three" -> 21441
      [] c = "Four"  -> 32902
      [] c = "Five"  -> 20237
      [] c = "Six"   -> 38470
      [] c = "Seven" -> 26578
      [] c = "Eight" -> 25420
      [] c = "Nine"  -> 29590
      [] c = "Shi"   -> 25342
      [] c = "Bai"   -> 20336
      [] c = "Qian"  -> 20191
      [] c = "Wan"   -> 19975
      [] OTHER       -> to_lowercase_simp(c)

to_lowercase_trad(c) ==
    CASE c = "Wan"   -> 33836
      [] c = "Yi"    -> 20740
      [] c = "Zhao"  -> 20806
      [] c = "Gou"   -> 28317
      [] c = "Jian"  -> 28567
      [] c = "Zai"   -> 36617
      [] c = "Neg"   -> 36000
      [] OTHER       -> to_lowercase_simp(c)

\* to_uppercase_trad with to_uppercase_simp in the last arm
to_uppercase_trad_via_simp(c) ==
    CASE c = "Two"   -> 36019
      [] c = "Three" -> 21444
      [] c = "Six"   -> 38520
      [] OTHER       -> to_uppercase_simp(c)

to_uppercase_trad(c) ==
    CASE c = "Two"   -> 36019
      [] c = "Three" -> 21444
      [] c = "Six"   -> 38520
      [] OTHER       -> to_lowercase_trad(c)

(***************************************************************************)
(* Numerals: {sign, data} of one of the seven types.                       *)
(***************************************************************************)
Sign == {"Neg", "Nil", "Pos"}

Variant == {"Simplified", "Traditional"}

PrimTypes == {"ShortScaleInt", "MyriadScaleInt", "MidScaleInt", "LongScaleInt"}

BigTypes == {"MyriadScaleBigInt", "MidScaleBigInt", "LongScaleBigInt"}

\* #[derive(Default)]: sign Nil (impl Default for Sign), data 0
Default(ty) == [ty |-> ty, sign |-> "Nil", data |-> << >>]

\* a magnitude written in groups of four decimal digits, lowest group first
RECURSIVE Groups(_)
Groups(g) ==
    IF g = << >> THEN << >>
    ELSE LET hi == Groups(Tail(g))
             lo == Dec(Head(g))
         IN  IF hi = << >> THEN lo
             ELSE lo \o [i \in 1..(4 - Len(lo)) |-> 0] \o hi

\* d + 1
RECURSIVE Succ(_)
Succ(d) ==
    IF d = << >> THEN <<1>>
    ELSE IF d[1] < 9 THEN <<d[1] + 1>> \o Tail(d)
    ELSE <<0>> \o Succ(Tail(d))

(***************************************************************************)
(* Primitive integer types: MAX of each, and MIN = -(MAX + 1) of the       *)
(* signed ones.  isize and usize are the 64-bit ones.                      *)
(***************************************************************************)
UintTypes == {"u8", "u16", "u32", "u64", "u128", "usize"}

IntTypes == {"i8", "i16", "i32", "i64", "i128", "isize"}

PrimMax(t) ==
    CASE t = "u8"    -> Groups(<<255>>)
      [] t = "u16"   -> Groups(<<5535, 6>>)
      [] t = "u32"   -> Groups(<<7295, 9496, 42>>)
      [] t \in {"u64", "usize"} -> Groups(<<1615, 955, 737, 6744, 1844>>)
      [] t = "u128"  ->
           Groups(<<1455, 6821, 4317, 4607, 6337, 4634, 938, 6692, 2823, 340>>)
      [] t = "i8"    -> Groups(<<127>>)
      [] t = "i16"   -> Groups(<<2767, 3>>)
      [] t = "i32"   -> Groups(<<3647, 4748, 21>>)
      [] t \in {"i64", "isize"} -> Groups(<<5807, 5477, 368, 3372, 922>>)
      [] t = "i128"  ->
           Groups(<<5727, 8410, 7158, 7303, 3168, 2317, 469, 8346, 1411, 170>>)

\* a value of a signed type: neg is its sign bit, mag its absolute value
IsMin(t, v) == v.neg /\ v.mag = Succ(PrimMax(t))

InRange(t, v) ==
    IF t \in UintTypes THEN ~v.neg /\ Le(v.mag, PrimMax(t))
    ELSE (v.neg /\ v.mag # << >> /\ Le(v.mag, Succ(PrimMax(t))))
         \/ (~v.neg /\ Le(v.mag, PrimMax(t)))

(***************************************************************************)
(* macros.rs: the infallible conversions                                   *)
(***************************************************************************)
\* impl_from_uint: From<$pre> for $num
from_uint(ty, value) ==
    IF value = << >> THEN Default(ty)
    ELSE [ty |-> ty, sign |-> "Pos", data |-> value]

\* impl_from_int with the arm of MIN giving MAX as $data, without the + 1
from_int_min_as_max(ty, pre, value) ==
    IF value.mag = << >> THEN Default(ty)
    ELSE IF value.neg THEN
        LET abs == IF IsMin(pre, value) THEN PrimMax(pre)
                   ELSE value.mag
        IN  [ty |-> ty, sign |-> "Neg", data |-> abs]
    ELSE [ty |-> ty, sign |-> "Pos", data |-> value.mag]

\* impl_from_int: From<$pre> for $num
from_int(ty, pre, value) ==
    IF value.mag = << >> THEN Default(ty)
    ELSE IF value.neg THEN
        LET abs == IF IsMin(pre, value) THEN Succ(PrimMax(pre))
                   ELSE value.mag
        IN  [ty |-> ty, sign |-> "Neg", data |-> abs]
    ELSE [ty |-> ty, sign |-> "Pos", data |-> value.mag]

(***************************************************************************)
(* shortscale.rs                                                           *)
(***************************************************************************)
\* ShortScaleInt::MAX_ABS = 999_9999_9999_9999
ShortScaleInt_MAX_ABS == Groups(<<9999, 9999, 9999, 999>>)

\* the loop body of to_chars with the marker also pushed for exp = 9
ShortScaleInt_push_marker_at_9(chars, exp, rem, prev_rem) ==
    IF rem > 0 THEN
        chars
        \o (IF chars # << >> /\ prev_rem < 1 THEN <<NumCharAt(0)>> ELSE << >>)
        \o (IF exp >= 9 THEN <<NumCharAt(exp)>> ELSE << >>)
        \o <<NumCharAt(rem)>>
    ELSE chars

\* the body of the loop of to_chars for one exp: the new chars
ShortScaleInt_push(chars, exp, rem, prev_rem) ==
    IF rem > 0 THEN
        chars
        \o (IF chars # << >> /\ prev_rem < 1 THEN <<NumCharAt(0)>> ELSE << >>)
        \o (IF exp > 9 THEN <<NumCharAt(exp)>> ELSE << >>)
        \o <<NumCharAt(rem)>>
    ELSE chars

\* for exp in 9..=23
RECURSIVE ShortScaleInt_loop(_, _, _, _)
ShortScaleInt_loop(exp, num, prev_rem, chars) ==
    IF exp > 23 THEN chars
    ELSE LET rem == Val(ModPow10(num, 1))
         IN  ShortScaleInt_loop(exp + 1, DivPow10(num, 1), rem,
                                ShortScaleInt_push(chars, exp, rem, prev_rem))

ShortScaleInt_to_chars(self) == ShortScaleInt_loop(9, self.data, 1, << >>)

\* Vec::pop
Pop(chars) == IF chars = << >> THEN << >> ELSE SubSeq(chars, 1, Len(chars) - 1)

\* to_chars_trimmed with the test data <= 18 in place of data <= 19
ShortScaleInt_to_chars_trimmed_to_18(self) ==
    LET chars == ShortScaleInt_to_chars(self)
    IN  IF Le(Dec(10), self.data) /\ Le(self.data, Dec(18)) THEN Pop(chars)
        ELSE chars

ShortScaleInt_to_chars_trimmed(self) ==
    LET chars == ShortScaleInt_to_chars(self)
    IN  IF Le(Dec(10), self.data) /\ Le(self.data, Dec(19)) THEN Pop(chars)
        ELSE chars

(***************************************************************************)
(* myriadscale.rs                                                          *)
(***************************************************************************)
\* MyriadScaleInt::new without the test of data == 0
MyriadScaleInt_new_unchecked(sign, data) ==
    [ty |-> "MyriadScaleInt", sign |-> sign, data |-> data]

MyriadScaleInt_new(sign, data) ==
    IF data = << >> THEN Default("MyriadScaleInt")
    ELSE [ty |-> "MyriadScaleInt", sign |-> sign, data |-> data]

\* the loop body of to_chars with the test prev_rem <= 1000 for the filler
MyriadScaleInt_push_filler_at_1000(chars, exp, rem, prev_rem) ==
    IF rem # << >> THEN
        chars
        \o (IF chars # << >> /\ Le(prev_rem, Dec(1000)) THEN <<NumCharAt(0)>>
            ELSE << >>)
        \o (IF exp > 12 THEN <<NumCharAt(exp)>> ELSE << >>)
        \o ShortScaleInt_to_chars(from_uint("ShortScaleInt", rem))
    ELSE chars

MyriadScaleInt_push(chars, exp, rem, prev_rem) ==
    IF rem # << >> THEN
        chars
        \o (IF chars # << >> /\ Lt(prev_rem, Dec(1000)) THEN <<NumCharAt(0)>>
            ELSE << >>)
        \o (IF exp > 12 THEN <<NumCharAt(exp)>> ELSE << >>)
        \o ShortScaleInt_to_chars(from_uint("ShortScaleInt", rem))
    ELSE chars

\* for exp in 12..=21; rem is below 10^4, which `as u16` keeps
RECURSIVE MyriadScaleInt_loop(_, _, _, _)
MyriadScaleInt_loop(exp, num, prev_rem, chars) ==
    IF exp > 21 THEN chars
    ELSE LET rem == ModPow10(num, 4)
         IN  MyriadScaleInt_loop(exp + 1, DivPow10(num, 4), rem,
                                 MyriadScaleInt_push(chars, exp, rem, prev_rem))

MyriadScaleInt_to_chars(self) ==
    MyriadScaleInt_loop(12, self.data, Dec(1000), << >>)

\* while data >= 1_0000 { data /= 1_0000 }: the loop runs while data has more
\* than four digits and drops four each time, (Len(data) - 1) \div 4 times
Leading(data) ==
    IF Le(Dec(10000), data) THEN DivPow10(data, 4 * ((Len(data) - 1) \div 4))
    ELSE data

MyriadScaleInt_to_chars_trimmed(self) ==
    LET chars == MyriadScaleInt_to_chars(self)
        data  == Leading(self.data)
    IN  IF Le(Dec(10), data) /\ Le(data, Dec(19)) THEN Pop(chars) ELSE chars

(***************************************************************************)
(* midscale.rs                                                             *)
(***************************************************************************)
MidScaleInt_new_non_pos(abs) ==
    IF abs = << >> THEN Default("MidScaleInt")
    ELSE [ty |-> "MidScaleInt", sign |-> "Neg", data |-> abs]

\* the loop body of to_chars with the markers one name lower, Wan first
MidScaleInt_push_from_wan(chars, exp, rem, prev_rem) ==
    IF rem # << >> THEN
        chars
        \o (IF chars # << >> /\ Lt(prev_rem, Pow10(7)) THEN <<NumCharAt(0)>>
            ELSE << >>)
        \o (IF exp > 13 THEN <<NumCharAt(exp - 1)>> ELSE << >>)
        \o MyriadScaleInt_to_chars(from_uint("MyriadScaleInt", rem))
    ELSE chars

MidScaleInt_push(chars, exp, rem, prev_rem) ==
    IF rem # << >> THEN
        chars
        \o (IF chars # << >> /\ Lt(prev_rem, Pow10(7)) THEN <<NumCharAt(0)>>
            ELSE << >>)
        \o (IF exp > 13 THEN <<NumCharAt(exp)>> ELSE << >>)
        \o MyriadScaleInt_to_chars(from_uint("MyriadScaleInt", rem))
    ELSE chars

\* for exp in 13..=17
RECURSIVE MidScaleInt_loop(_, _, _, _)
MidScaleInt_loop(exp, num, prev_rem, chars) ==
    IF exp > 17 THEN chars
    ELSE LET rem == ModPow10(num, 8)
         IN  MidScaleInt_loop(exp + 1, DivPow10(num, 8), rem,
                              MidScaleInt_push(chars, exp, rem, prev_rem))

MidScaleInt_to_chars(self) == MidScaleInt_loop(13, self.data, Pow10(7), << >>)

MidScaleInt_to_chars_trimmed(self) ==
    LET chars == MidScaleInt_to_chars(self)
        data  == Leading(self.data)
    IN  IF Le(Dec(10), data) /\ Le(data, Dec(19)) THEN Pop(chars) ELSE chars

(***************************************************************************)
(* longscale.rs                                                            *)
(***************************************************************************)
LongScaleInt_new(sign, data) ==
    IF data = << >> THEN Default("LongScaleInt")
    ELSE [ty |-> "LongScaleInt", sign |-> sign, data |-> data]

\* the body of the loop with NUM_CHARS[15] as the marker of every group
LongScaleInt_push_marker_zhao(chars, exp, rem, prev_rem) ==
    IF rem # << >> THEN
        chars
        \o (IF chars # << >> /\ Lt(prev_rem, Pow10(15)) THEN <<NumCharAt(0)>>
            ELSE << >>)
        \o (IF exp > 14 THEN <<NumCharAt(15)>> ELSE << >>)
        \o MidScaleInt_to_chars(from_uint("MidScaleInt", rem))
    ELSE chars

LongScaleInt_push(chars, exp, rem, prev_rem) ==
    IF rem # << >> THEN
        chars
        \o (IF chars # << >> /\ Lt(prev_rem, Pow10(15)) THEN <<NumCharAt(0)>>
            ELSE << >>)
        \o (IF exp > 14 THEN <<NumCharAt(exp)>> ELSE << >>)
        \o MidScaleInt_to_chars(from_uint("MidScaleInt", rem))
    ELSE chars

\* for exp in 14..=16
RECURSIVE LongScaleInt_loop(_, _, _, _)
LongScaleInt_loop(exp, num, prev_rem, chars) ==
    IF exp > 16 THEN chars
    ELSE LET rem == ModPow10(num, 16)
         IN  LongScaleInt_loop(exp + 1, DivPow10(num, 16), rem,
                               LongScaleInt_push(chars, exp, rem, prev_rem))

LongScaleInt_to_chars(self) ==
    LongScaleInt_loop(14, self.data, Pow10(15), << >>)

LongScaleInt_to_chars_trimmed(self) ==
    LET chars == LongScaleInt_to_chars(self)
        data  == Leading(self.data)
    IN  IF Le(Dec(10), data) /\ Le(data, Dec(19)) THEN Pop(chars) ELSE chars

(***************************************************************************)
(* The bigint feature.  BigUint::from_slice(MAX_ABS_ARR) is 10^48 - 1 for  *)
(* the myriad scale, 10^88 - 1 for the mid-scale and 10^8192 - 1 for the   *)
(* long scale.                                                             *)
(***************************************************************************)
MAX_ABS_ARR(ty) ==
    CASE ty = "MyriadScaleBigInt" -> Nines(48)
      [] ty = "MidScaleBigInt"    -> Nines(88)
      [] ty = "LongScaleBigInt"   -> Nines(8192)

OutOfRange(ty) ==
    CASE ty = "ShortScaleInt"     -> "ShortScaleOutOfRange"
      [] ty = "MyriadScaleBigInt" -> "MyriadScaleOutOfRange"
      [] ty = "MidScaleBigInt"    -> "MidScaleOutOfRange"
      [] ty = "LongScaleBigInt"   -> "LongScaleOutOfRange"

Ok(v) == [ok |-> TRUE, val |-> v]

Err(kind, abs) == [ok |-> FALSE, err |-> kind, abs |-> abs]

\* TryFrom<&BigUint> with value < MAX_ABS_ARR in place of value <= MAX_ABS_ARR
try_from_biguint_below(ty, value) ==
    IF value = << >> THEN Ok(Default(ty))
    ELSE IF Lt(value, MAX_ABS_ARR(ty)) THEN
        Ok([ty |-> ty, sign |-> "Pos", data |-> value])
    ELSE Err(OutOfRange(ty), value)

\* impl_try_from_big: TryFrom<&BigUint> (and TryFrom<BigUint>, which calls it)
try_from_biguint(ty, value) ==
    IF value = << >> THEN Ok(Default(ty))
    ELSE IF Le(value, MAX_ABS_ARR(ty)) THEN
        Ok([ty |-> ty, sign |-> "Pos", data |-> value])
    ELSE Err(OutOfRange(ty), value)

\* impl_try_from_big: TryFrom<&BigInt> (and TryFrom<BigInt>, which calls it)
try_from_bigint(ty, value) ==
    IF Lt(MAX_ABS_ARR(ty), value.mag) THEN Err(OutOfRange(ty), value.mag)
    ELSE IF value.mag = << >> THEN Ok(Default(ty))
    ELSE IF value.neg THEN Ok([ty |-> ty, sign |-> "Neg", data |-> value.mag])
    ELSE Ok([ty |-> ty, sign |-> "Pos", data |-> value.mag])

\* ToPrimitive::to_u16, to_u32, to_u64: None when the value does not fit
to_prim(t, d) == IF Le(d, PrimMax(t)) THEN Ok(d) ELSE [ok |-> FALSE]

\* what a failed unwrap leaves in place of a symbol sequence
Panic == <<"Panic">>

\* the body of the loop with the filler pushed also when chars is empty
MyriadScaleBigInt_push_filler_on_empty(chars, exp, rem, prev_rem) ==
    IF rem # << >> THEN
        LET r16 == to_prim("u16", rem)
        IN  IF ~r16.ok THEN Panic
            ELSE chars
                 \o (IF Lt(prev_rem, Dec(1000))
                     THEN <<NumCharAt(0)>> ELSE << >>)
                 \o (IF exp > 12 THEN <<NumCharAt(exp)>> ELSE << >>)
                 \o ShortScaleInt_to_chars(from_uint("ShortScaleInt", r16.val))
    ELSE chars

MyriadScaleBigInt_push(chars, exp, rem, prev_rem) ==
    IF rem # << >> THEN
        LET r16 == to_prim("u16", rem)
        IN  IF ~r16.ok THEN Panic
            ELSE chars
                 \o (IF chars # << >> /\ Lt(prev_rem, Dec(1000))
                     THEN <<NumCharAt(0)>> ELSE << >>)
                 \o (IF exp > 12 THEN <<NumCharAt(exp)>> ELSE << >>)
                 \o ShortScaleInt_to_chars(from_uint("ShortScaleInt", r16.val))
    ELSE chars

\* the loop ending one group early: for exp in 12..=22
RECURSIVE MyriadScaleBigInt_loop_to_22(_, _, _, _)
MyriadScaleBigInt_loop_to_22(exp, num, prev_rem, chars) ==
    IF exp > 22 \/ chars = Panic THEN chars
    ELSE LET rem == ModPow10(num, 4)
         IN  MyriadScaleBigInt_loop_to_22(exp + 1, DivPow10(num, 4), rem,
                 MyriadScaleBigInt_push(chars, exp, rem, prev_rem))

\* for exp in 12..=23
RECURSIVE MyriadScaleBigInt_loop(_, _, _, _)
MyriadScaleBigInt_loop(exp, num, prev_rem, chars) ==
    IF exp > 23 \/ chars = Panic THEN chars
    ELSE LET rem == ModPow10(num, 4)
         IN  MyriadScaleBigInt_loop(exp + 1, DivPow10(num, 4), rem,
                 MyriadScaleBigInt_push(chars, exp, rem, prev_rem))

MyriadScaleBigInt_to_chars(self) ==
    MyriadScaleBigInt_loop(12, self.data, Dec(1000), << >>)

\* the body of the loop with the remainder narrowed by to_u16 in place of to_u32
MidScaleBigInt_push_to_u16(chars, exp, rem, prev_rem) ==
    IF rem # << >> THEN
        LET r16 == to_prim("u16", rem)
        IN  IF ~r16.ok THEN Panic
            ELSE chars
                 \o (IF chars # << >> /\ Lt(prev_rem, Pow10(7))
                     THEN <<NumCharAt(0)>> ELSE << >>)
                 \o (IF exp > 13 THEN <<NumCharAt(exp)>> ELSE << >>)
                 \o MyriadScaleInt_to_chars(from_uint("MyriadScaleInt", r16.val))
    ELSE chars

MidScaleBigInt_push(chars, exp, rem, prev_rem) ==
    IF rem # << >> THEN
        LET r32 == to_prim("u32", rem)
        IN  IF ~r32.ok THEN Panic
            ELSE chars
                 \o (IF chars # << >> /\ Lt(prev_rem, Pow10(7))
                     THEN <<NumCharAt(0)>> ELSE << >>)
                 \o (IF exp > 13 THEN <<NumCharAt(exp)>> ELSE << >>)
                 \o MyriadScaleInt_to_chars(from_uint("MyriadScaleInt", r32.val))
    ELSE chars

\* for exp in 13..=23
RECURSIVE MidScaleBigInt_loop(_, _, _, _)
MidScaleBigInt_loop(exp, num, prev_rem, chars) ==
    IF exp > 23 \/ chars = Panic THEN chars
    ELSE LET rem == ModPow10(num, 8)
         IN  MidScaleBigInt_loop(exp + 1, DivPow10(num, 8), rem,
                 MidScaleBigInt_push(chars, exp, rem, prev_rem))

MidScaleBigInt_to_chars(self) ==
    MidScaleBigInt_loop(13, self.data, Pow10(7), << >>)

(***************************************************************************)
(* LongScaleBigInt::to_chars.  div and lim are powers of ten throughout    *)
(* (10^16 squared again and again, and div / 10): each is held by its      *)
(* exponent, so that &div * &div doubles the exponent of div.              *)
(***************************************************************************)
RECURSIVE LongScaleBigInt_loop(_, _)

\* the symbols of one nonzero group: of MidScaleInt::from(rem.to_u64()) for
\* exp <= 15, of a recursive call of to_chars on Self::try_from(&rem) for a
\* later one; with them the recursive calls made for the group, each with its
\* exp, its argument and the calls made inside it
LongScaleBigInt_node(exp, rem) ==
    IF rem = << >> THEN [chars |-> << >>, calls |-> {}]
    ELSE IF exp <= 15 THEN
        LET r64 == to_prim("u64", rem)
        IN  IF ~r64.ok THEN [chars |-> Panic, calls |-> {}]
            ELSE [chars |-> MidScaleInt_to_chars(
                                from_uint("MidScaleInt", r64.val)),
                  calls |-> {}]
    ELSE
        LET long == try_from_biguint("LongScaleBigInt", rem)
        IN  IF ~long.ok THEN [chars |-> Panic, calls |-> {}]
            ELSE LET inner == LongScaleBigInt_loop(long.val, 23)
                 IN  [chars |-> inner.chars,
                      calls |-> {[exp |-> exp, rem |-> rem,
                                  calls |-> inner.calls]}]

\* the body of `if rem > zero`: the new chars, node being the symbols of the
\* group
LongScaleBigInt_push(chars, exp, rem, prev_rem, lim, node) ==
    IF rem # << >> THEN
        IF node = Panic THEN Panic
        ELSE chars
             \o (IF chars # << >> /\ Lt(prev_rem, Pow10(lim))
                 THEN <<NumCharAt(0)>> ELSE << >>)
             \o (IF exp > 14 THEN <<NumCharAt(exp)>> ELSE << >>)
             \o node
    ELSE chars

\* the variables of the loop as they are before its first iteration, and
\* the recursive calls made so far
LongScaleBigInt_init(self) ==
    [num |-> self.data, prev_rem |-> Pow10(15), lim |-> 15, div |-> 16,
     chars |-> << >>, calls |-> {}]

\* one iteration of the loop with div never squared: groups of 16 digits
\* throughout
LongScaleBigInt_step_linear(s, exp) ==
    IF s.chars = Panic THEN s
    ELSE LET rem    == ModPow10(s.num, s.div)
             node   == LongScaleBigInt_node(exp, rem)
             chars2 == LongScaleBigInt_push(s.chars, exp, rem, s.prev_rem,
                                            s.lim, node.chars)
         IN  [num      |-> DivPow10(s.num, s.div),
              prev_rem |-> rem,
              lim      |-> s.lim,
              div      |-> s.div,
              chars    |-> chars2,
              calls    |-> s.calls \cup node.calls]

\* one iteration of the loop with div squared after every iteration, the
\* first one too
LongScaleBigInt_step_squaring(s, exp) ==
    IF s.chars = Panic THEN s
    ELSE LET rem    == ModPow10(s.num, s.div)
             node   == LongScaleBigInt_node(exp, rem)
             chars2 == LongScaleBigInt_push(s.chars, exp, rem, s.prev_rem,
                                            s.lim, node.chars)
         IN  [num      |-> DivPow10(s.num, s.div),
              prev_rem |-> MulPow10(rem, s.div),
              lim      |-> s.div + s.div - 1,
              div      |-> s.div + s.div,
              chars    |-> chars2,
              calls    |-> s.calls \cup node.calls]

\* one iteration of the loop with prev_rem left as the remainder, not
\* multiplied by div
LongScaleBigInt_step_raw_prev_rem(s, exp) ==
    IF s.chars = Panic THEN s
    ELSE LET rem    == ModPow10(s.num, s.div)
             node   == LongScaleBigInt_node(exp, rem)
             chars2 == LongScaleBigInt_push(s.chars, exp, rem, s.prev_rem,
                                            s.lim, node.chars)
         IN  IF exp > 14 THEN
                 [num      |-> DivPow10(s.num, s.div),
                  prev_rem |-> rem,
                  lim      |-> s.div + s.div - 1,
                  div      |-> s.div + s.div,
                  chars    |-> chars2,
                  calls    |-> s.calls \cup node.calls]
             ELSE
                 [num      |-> DivPow10(s.num, s.div),
                  prev_rem |-> rem,
                  lim      |-> s.lim,
                  div      |-> s.div,
                  chars    |-> chars2,
                  calls    |-> s.calls \cup node.calls]

\* one iteration of the loop, for exp, on the variables s of the loop: the
\* variables after it.  A failed unwrap ends the function.
LongScaleBigInt_step(s, exp) ==
    IF s.chars = Panic THEN s
    ELSE LET rem    == ModPow10(s.num, s.div)
             node   == LongScaleBigInt_node(exp, rem)
             chars2 == LongScaleBigInt_push(s.chars, exp, rem, s.prev_rem,
                                            s.lim, node.chars)
         IN  IF exp > 14 THEN
                 [num      |-> DivPow10(s.num, s.div),
                  prev_rem |-> MulPow10(rem, s.div),
                  lim      |-> s.div + s.div - 1,
                  div      |-> s.div + s.div,
                  chars    |-> chars2,
                  calls    |-> s.calls \cup node.calls]
             ELSE
                 [num      |-> DivPow10(s.num, s.div),
                  prev_rem |-> rem,
                  lim      |-> s.lim,
                  div      |-> s.div,
                  chars    |-> chars2,
                  calls    |-> s.calls \cup node.calls]

\* for exp in 14..=23: the variables of the loop after the iteration for exp
LongScaleBigInt_loop(self, exp) ==
    IF exp < 14 THEN LongScaleBigInt_init(self)
    ELSE LongScaleBigInt_step(LongScaleBigInt_loop(self, exp - 1), exp)

LongScaleBigInt_to_chars(self) == LongScaleBigInt_loop(self, 23).chars

\* to_chars_trimmed of the three BigInt types: the same text in each
BigInt_trim(self, chars) ==
    LET data == Leading(self.data)
    IN  IF chars = Panic THEN Panic
        ELSE IF Le(Dec(10), data) /\ Le(data, Dec(19)) THEN Pop(chars)
        ELSE chars

(***************************************************************************)
(* lib.rs: the sealed trait ChineseNumeralBase, by type                    *)
(***************************************************************************)
to_chars(self) ==
    CASE self.ty = "ShortScaleInt"     -> ShortScaleInt_to_chars(self)
      [] self.ty = "MyriadScaleInt"    -> MyriadScaleInt_to_chars(self)
      [] self.ty = "MidScaleInt"       -> MidScaleInt_to_chars(self)
      [] self.ty = "LongScaleInt"      -> LongScaleInt_to_chars(self)
      [] self.ty = "MyriadScaleBigInt" -> MyriadScaleBigInt_to_chars(self)
      [] self.ty = "MidScaleBigInt"    -> MidScaleBigInt_to_chars(self)
      [] self.ty = "LongScaleBigInt"   -> LongScaleBigInt_to_chars(self)

to_chars_trimmed(self) ==
    CASE self.ty = "ShortScaleInt"  -> ShortScaleInt_to_chars_trimmed(self)
      [] self.ty = "MyriadScaleInt" -> MyriadScaleInt_to_chars_trimmed(self)
      [] self.ty = "MidScaleInt"    -> MidScaleInt_to_chars_trimmed(self)
      [] self.ty = "LongScaleInt"   -> LongScaleInt_to_chars_trimmed(self)
      [] self.ty \in BigTypes       -> BigInt_trim(self, to_chars(self))

(***************************************************************************)
(* macros.rs: the fallible conversions to ShortScaleInt                    *)
(***************************************************************************)
\* impl_try_from_uint: TryFrom<$u> for ShortScaleInt, $u in u64, u128, usize
try_from_uint(value) ==
    IF value = << >> THEN Ok(Default("ShortScaleInt"))
    ELSE IF Le(value, ShortScaleInt_MAX_ABS) THEN
        Ok([ty |-> "ShortScaleInt", sign |-> "Pos", data |-> value])
    ELSE Err("ShortScaleOutOfRange", value)

\* i64::MIN.abs() as u128 in a build without overflow checks: abs wraps to
\* i64::MIN, which the cast sign-extends to 2^128 - 2^63
WrappedAbsMin64 ==
    Groups(<<5648, 1343, 3949, 1235, 5415, 4634, 938, 6692, 2823, 340>>)

\* impl_try_from_int: TryFrom<$i> for ShortScaleInt, $i in i64, i128, isize.
\* value.abs() overflows for the MIN of $i: a panic where overflow is checked
\* (build = "debug"), a wrap where it is not (build = "release").
try_from_int(pre, value, build) ==
    IF Lt(ShortScaleInt_MAX_ABS, value.mag) THEN
        IF pre = "i128" /\ IsMin(pre, value) THEN
            Err("ShortScaleOutOfRange", Succ(PrimMax("i128")))
        ELSE IF IsMin(pre, value) THEN
            IF build = "debug" THEN Err("panic", << >>)
            ELSE Err("ShortScaleOutOfRange", WrappedAbsMin64)
        ELSE Err("ShortScaleOutOfRange", value.mag)
    ELSE IF value.neg /\ value.mag # << >> THEN
        Ok([ty |-> "ShortScaleInt", sign |-> "Neg", data |-> value.mag])
    ELSE IF value.mag # << >> THEN
        Ok([ty |-> "ShortScaleInt", sign |-> "Pos", data |-> value.mag])
    ELSE Ok(Default("ShortScaleInt"))

(***************************************************************************)
(* lib.rs: trait ChineseNumeral                                            *)
(***************************************************************************)
\* push_sign with the symbol of the sign put first in the Vec, so that it is
\* mapped last
push_sign_first(chars, sign) ==
    CASE sign = "Neg" -> <<"Neg">> \o chars
      [] sign = "Nil" -> <<"Zero">> \o chars
      [] OTHER        -> chars

\* the sign match of to_lowercase and to_uppercase
push_sign(chars, sign) ==
    CASE sign = "Neg" -> Append(chars, "Neg")
      [] sign = "Nil" -> Append(chars, "Zero")
      [] OTHER        -> chars

\* into_iter().rev()
Rev(s) == [i \in 1..Len(s) |-> s[Len(s) + 1 - i]]

lowercase_method(variant, c) ==
    IF variant = "Simplified" THEN to_lowercase_simp(c) ELSE to_lowercase_trad(c)

uppercase_method(variant, c) ==
    IF variant = "Simplified" THEN to_uppercase_simp(c) ELSE to_uppercase_trad(c)

\* the symbols of to_lowercase taken from to_chars, with nothing removed
lowercase_chars_untrimmed(self) ==
    LET chars == to_chars(self)
    IN  IF chars = Panic THEN Panic ELSE push_sign(chars, self.sign)

\* the symbols of to_uppercase taken from to_chars_trimmed
uppercase_chars_trimmed(self) ==
    LET chars == to_chars_trimmed(self)
    IN  IF chars = Panic THEN Panic ELSE push_sign(chars, self.sign)

\* the symbols to_lowercase maps, in the order of the Vec
lowercase_chars(self) ==
    LET chars == to_chars_trimmed(self)
    IN  IF chars = Panic THEN Panic ELSE push_sign(chars, self.sign)

\* the symbols to_uppercase maps, in the order of the Vec
uppercase_chars(self) ==
    LET chars == to_chars(self)
    IN  IF chars = Panic THEN Panic ELSE push_sign(chars, self.sign)

to_lowercase(self, variant) ==
    LET chars == lowercase_chars(self)
    IN  IF chars = Panic THEN Panic
        ELSE [i \in 1..Len(chars) |-> lowercase_method(variant, Rev(chars)[i])]

to_uppercase(self, variant) ==
    LET chars == uppercase_chars(self)
    IN  IF chars = Panic THEN Panic
        ELSE [i \in 1..Len(chars) |-> uppercase_method(variant, Rev(chars)[i])]

(***************************************************************************)
(* macros.rs: impl_disp, Display of the seven types                        *)
(***************************************************************************)
\* the symbols fmt maps, in the order of the Vec
fmt_chars(self, alternate) ==
    IF alternate THEN uppercase_chars(self) ELSE lowercase_chars(self)

\* Display::fmt with the two branches exchanged
fmt_swapped(self, alternate) ==
    IF alternate THEN to_lowercase(self, "Simplified")
    ELSE to_uppercase(self, "Simplified")

\* Display::fmt: what is written for "{}" (alternate false) and "{:#}"
fmt(self, alternate) ==
    IF alternate THEN to_uppercase(self, "Simplified")
    ELSE to_lowercase(self, "Simplified")

(***************************************************************************)
(* The inputs.  A unit is one decimal digit for the short scale and a      *)
(* group of four digits for the others.  A magnitude of the sample has one *)
(* nonzero unit at any position the type has (and at the first position    *)
(* beyond its ceiling), or at most MaxNonzero nonzero units at the         *)
(* positions where two groups of some engine meet; a unit has one of a few *)
(* values on both sides of the thresholds of the code.                     *)
(***************************************************************************)
MaxNonzero == 2

\* the magnitude with value f[p] in the unit of `width` digits at each
\* position p of DOMAIN f, and zero elsewhere
Sparse(width, f) ==
    IF DOMAIN f = {} THEN << >>
    ELSE LET top == CHOOSE p \in DOMAIN f : \A q \in DOMAIN f : q <= p
             digit(i) ==
                 LET p == (i - 1) \div width
                     k == (i - 1) % width
                 IN  IF p \in DOMAIN f
                     THEN (f[p] \div (10 ^ k)) % 10
                     ELSE 0
         IN  Norm([i \in 1..(width * (top + 1)) |-> digit(i)])

\* the subsets of S of at most k elements
RECURSIVE UpTo(_, _)
UpTo(S, k) ==
    IF k = 0 THEN {{}}
    ELSE LET less == UpTo(S, k - 1)
         IN  less \cup {P \cup {x} : P \in less, x \in S}

SparseSet(width, all, meeting, vals) ==
    UNION {{Sparse(width, f) : f \in [P -> vals]} :
              P \in UpTo(meeting, MaxNonzero) \cup {{p} : p \in all}}

DigitVals == {1, 9}

GroupVals == {1, 19, 999, 1000}

\* the magnitudes of the documentation and of the specification's examples
Examples ==
    { Dec(10), Dec(19), Dec(21), Groups(<<5, 1>>), Groups(<<2345, 1>>),
      Groups(<<405, 203, 1>>),
      Groups(<<2964, 597, 5637, 5271, 5480, 130>>) }

\* the magnitudes every sign and every conversion is tried on
Few == Examples \cup {<< >>, Dec(1), Dec(15), Groups(<<0, 12>>)}

\* the ceiling of ShortScaleInt and the first magnitude beyond it
ShortEdge == {ShortScaleInt_MAX_ABS, Succ(ShortScaleInt_MAX_ABS)}

ShortSample == SparseSet(1, 0..15, {0, 1, 2, 3, 13, 14}, DigitVals) \cup Few

U128Sample ==
    {m \in SparseSet(4, 0..9, {0, 1, 2, 3, 4, 7, 8}, GroupVals) \cup Few :
        Le(m, PrimMax("u128"))}

BigAll(ty) ==
    CASE ty = "MyriadScaleBigInt" -> 0..12
      [] ty = "MidScaleBigInt"    -> 0..22
      [] ty = "LongScaleBigInt"   ->
           {0, 1, 3, 4, 7, 8, 15, 16, 31, 32, 63, 64, 127, 128, 255, 256, 511,
            512, 1023, 1024, 2047, 2048}

BigMeeting(ty) ==
    CASE ty = "MyriadScaleBigInt" -> {0, 1, 2, 11}
      [] ty = "MidScaleBigInt"    -> {0, 1, 2, 3, 21}
      [] ty = "LongScaleBigInt"   -> {0, 3, 4, 7, 8, 16}

BigSample(ty) ==
    SparseSet(4, BigAll(ty), BigMeeting(ty), GroupVals) \cup Few

\* the ceiling of a BigInt type and the first magnitude beyond it
BigEdge(ty) == {MAX_ABS_ARR(ty), Pow10(Len(MAX_ABS_ARR(ty)))}

\* the values of a primitive type at its ends and around zero
EdgeValues(t) ==
    {v \in [neg : BOOLEAN,
            mag : {<< >>, Dec(1), Dec(10), PrimMax(t), Succ(PrimMax(t))}] :
        InRange(t, v) /\ (v.mag = << >> => ~v.neg)}

(***************************************************************************)
(* The state: the call that built the numeral, the numeral (or the error), *)
(* and the last rendering of it.                                           *)
(***************************************************************************)
VARIABLES pc, arg, num, op, chars, text

vars == <<pc, arg, num, op, chars, text>>

NoOp == [case |-> "none", variant |-> "none"]

\* the call that built the numeral: the function, the type built, the type
\* of the argument, the sign argument and the value argument
Call(ctor, ty, pre, sign, mag) ==
    [ctor |-> ctor, ty |-> ty, pre |-> pre, sign |-> sign,
     value |-> [neg |-> FALSE, mag |-> mag]]

\* where a constructor or conversion that returned r leaves the program
After(r) == IF r.ok THEN "built" ELSE "failed"

Init ==
    /\ pc = "start"
    /\ arg = Call("none", "none", "none", "none", << >>)
    /\ num = Ok(Default("ShortScaleInt"))
    /\ op = NoOp
    /\ chars = << >>
    /\ text = << >>

\* T::default()
CallDefault ==
    \E ty \in PrimTypes \cup BigTypes :
        /\ pc = "start"
        /\ arg' = Call("default", ty, "none", "none", << >>)
        /\ num' = Ok(Default(ty))
        /\ pc' = "built"
        /\ UNCHANGED <<op, chars, text>>

\* MyriadScaleInt::new(sign, data), LongScaleInt::new(sign, data)
CallNew ==
    \E ty \in {"MyriadScaleInt", "LongScaleInt"}, sign \in Sign :
        \E data \in (IF sign = "Pos" THEN U128Sample ELSE Few) :
            /\ pc = "start"
            /\ arg' = Call("new", ty, "u128", sign, data)
            /\ num' = Ok(IF ty = "MyriadScaleInt"
                         THEN MyriadScaleInt_new(sign, data)
                         ELSE LongScaleInt_new(sign, data))
            /\ pc' = "built"
            /\ UNCHANGED <<op, chars, text>>

\* MidScaleInt::new_non_pos(abs)
CallNewNonPos ==
    \E abs \in Few :
        /\ pc = "start"
        /\ arg' = Call("new_non_pos", "MidScaleInt", "u128", "none", abs)
        /\ num' = Ok(MidScaleInt_new_non_pos(abs))
        /\ pc' = "built"
        /\ UNCHANGED <<op, chars, text>>

\* the types with a From conversion to ty
FromUintTypes(ty) ==
    IF ty = "ShortScaleInt" THEN {"u8", "u16", "u32"} ELSE UintTypes

FromIntTypes(ty) ==
    IF ty = "ShortScaleInt" THEN {"i8", "i16", "i32"} ELSE IntTypes

\* T::from(value) of an unsigned value
CallFromUint ==
    \E ty \in PrimTypes :
        \E pre \in FromUintTypes(ty) :
            \E value \in {v.mag : v \in EdgeValues(pre)}
                         \cup (IF pre = "u128" /\ ty = "MidScaleInt"
                               THEN U128Sample ELSE {}) :
                /\ pc = "start"
                /\ arg' = Call("from", ty, pre, "none", value)
                /\ num' = Ok(from_uint(ty, value))
                /\ pc' = "built"
                /\ UNCHANGED <<op, chars, text>>

\* T::from(value) of a signed value
CallFromInt ==
    \E ty \in PrimTypes :
        \E pre \in FromIntTypes(ty) :
            \E value \in EdgeValues(pre) :
                /\ pc = "start"
                /\ arg' = [Call("from", ty, pre, "none", value.mag)
                               EXCEPT !.value = value]
                /\ num' = Ok(from_int(ty, pre, value))
                /\ pc' = "built"
                /\ UNCHANGED <<op, chars, text>>

\* ShortScaleInt::try_from(value) of an unsigned value
CallTryFromUint ==
    \E pre \in {"u64", "u128", "usize"} :
        \E value \in {v.mag : v \in EdgeValues(pre)} \cup ShortEdge
                     \cup (IF pre = "u64" THEN ShortSample ELSE {}) :
            /\ pc = "start"
            /\ arg' = Call("try_from", "ShortScaleInt", pre, "none", value)
            /\ num' = try_from_uint(value)
            /\ pc' = After(num')
            /\ UNCHANGED <<op, chars, text>>

\* ShortScaleInt::try_from(value) of a signed value, in either build
CallTryFromInt ==
    \E pre \in {"i64", "i128", "isize"}, build \in {"debug", "release"} :
        \E value \in EdgeValues(pre) \cup [neg : BOOLEAN, mag : ShortEdge]
                     \cup (IF pre = "i64"
                           THEN {[neg |-> TRUE, mag |-> m] :
                                    m \in Few \ {<< >>}}
                           ELSE {}) :
            /\ pc = "start"
            /\ arg' = [Call("try_from", "ShortScaleInt", pre, "none",
                            value.mag) EXCEPT !.value = value]
            /\ num' = try_from_int(pre, value, build)
            /\ pc' = After(num')
            /\ UNCHANGED <<op, chars, text>>

\* T::try_from(value) of a BigUint
CallTryFromBigUint ==
    \E ty \in BigTypes :
        \E value \in BigSample(ty) \cup BigEdge(ty) :
            /\ pc = "start"
            /\ arg' = Call("try_from", ty, "BigUint", "none", value)
            /\ num' = try_from_biguint(ty, value)
            /\ pc' = After(num')
            /\ UNCHANGED <<op, chars, text>>

\* T::try_from(value) of a BigInt
CallTryFromBigInt ==
    \E ty \in BigTypes, neg \in BOOLEAN :
        \E mag \in Few \cup {Nines(48), Pow10(48), Nines(88), Pow10(88),
                              Pow10(8192)} :
            /\ pc = "start"
            /\ mag = << >> => ~neg
            /\ arg' = [Call("try_from", ty, "BigInt", "none", mag)
                           EXCEPT !.value.neg = neg]
            /\ num' = try_from_bigint(ty, arg'.value)
            /\ pc' = After(num')
            /\ UNCHANGED <<op, chars, text>>

\* num.to_lowercase(variant)
CallToLowercase ==
    \E variant \in Variant :
        /\ pc = "built"
        /\ pc' = "rendered"
        /\ op' = [case |-> "lower", variant |-> variant]
        /\ chars' = lowercase_chars(num.val)
        /\ text' = to_lowercase(num.val, variant)
        /\ UNCHANGED <<arg, num>>

\* num.to_uppercase(variant)
CallToUppercase ==
    \E variant \in Variant :
        /\ pc = "built"
        /\ pc' = "rendered"
        /\ op' = [case |-> "upper", variant |-> variant]
        /\ chars' = uppercase_chars(num.val)
        /\ text' = to_uppercase(num.val, variant)
        /\ UNCHANGED <<arg, num>>

\* format!("{}", num) and format!("{:#}", num)
CallDisplay ==
    \E alternate \in BOOLEAN :
        /\ pc = "built"
        /\ pc' = "formatted"
        /\ op' = [case |-> "display",
                  variant |-> IF alternate THEN "{:#}" ELSE "{}"]
        /\ chars' = fmt_chars(num.val, alternate)
        /\ text' = fmt(num.val, alternate)
        /\ UNCHANGED <<arg, num>>

Next ==
    \/ CallDefault
    \/ CallNew
    \/ CallNewNonPos
    \/ CallFromUint
    \/ CallFromInt
    \/ CallTryFromUint
    \/ CallTryFromInt
    \/ CallTryFromBigUint
    \/ CallTryFromBigInt
    \/ CallToLowercase
    \/ CallToUppercase
    \/ CallDisplay

Spec == Init /\ [][Next]_vars

(***************************************************************************)
(* What the properties below read from a state.                            *)
(***************************************************************************)
\* the rendering o of numeral n
Render(n, o) ==
    IF o.case = "lower" THEN to_lowercase(n, o.variant)
    ELSE to_uppercase(n, o.variant)

\* the character the table of rendering o gives for symbol c
Glyph(o, c) ==
    IF o.case = "lower" THEN lowercase_method(o.variant, c)
    ELSE uppercase_method(o.variant, c)

Rendered == pc = "rendered" /\ chars # Panic

(***************************************************************************)
(* C1.  The text of a negative numeral of nonzero magnitude is the one     *)
(* character its table gives for Neg, followed by the text the same        *)
(* rendering gives for the numeral of sign Pos and the same magnitude, in  *)
(* every scale and in each of the four renderings.                         *)
(***************************************************************************)
C1_NegativeIsMarkerThenPositive ==
    (Rendered /\ num.val.sign = "Neg" /\ num.val.data # << >>) =>
        text = <<Glyph(op, "Neg")>>
               \o Render([num.val EXCEPT !.sign = "Pos"], op)

C1_Witness ==
    /\ Rendered
    /\ num.val = [ty |-> "LongScaleInt", sign |-> "Neg",
                  data |-> Groups(<<405, 203, 1>>)]
    /\ op = [case |-> "upper", variant |-> "Traditional"]
    /\ Len(text) > 1
    /\ text[1] = 36000

(***************************************************************************)
(* C2.  A numeral built with magnitude 0 through any constructor or        *)
(* conversion has sign Nil, whatever sign was given, and each rendering of *)
(* it is the one character of Zero, without the character of Neg.          *)
(***************************************************************************)
C2_ZeroIsNilAndRendersZero ==
    (pc # "start" /\ arg.value.mag = << >>) =>
        /\ num.ok
        /\ num.val.sign = "Nil"
        /\ num.val.data = << >>
        /\ pc = "rendered" =>
              /\ text = <<Glyph(op, "Zero")>>
              /\ text = <<38646>>

C2_Witness ==
    /\ pc = "rendered"
    /\ arg.ctor = "new"
    /\ arg.sign = "Neg"
    /\ arg.value.mag = << >>
    /\ text = <<38646>>

\* the leading value of numeral n is in 10..19: the magnitude itself for the
\* short scale, and for the other scales its most significant group of four
\* digits, which is what dividing by 10^4 until the value is below 10^4 leaves
LeadingInTeens(n) ==
    LET m   == n.data
        low == IF n.ty = "ShortScaleInt" THEN 0
               ELSE 4 * ((Len(m) - 1) \div 4)
    IN  /\ Len(m) = low + 2
        /\ m[Len(m)] = 1

\* a symbol sequence without its last (most significant) symbol, which has
\* to be One
WithoutLastOne(s) ==
    IF s # << >> /\ s[Len(s)] = "One" THEN SubSeq(s, 1, Len(s) - 1)
    ELSE <<"no One to remove">>

\* the number of sign characters a text starts with
SignLen(n) == IF n.sign = "Pos" THEN 0 ELSE 1

(***************************************************************************)
(* C3.  Lowercase rendering maps to_chars_trimmed, which is to_chars       *)
(* without its last (most significant) symbol One when the leading value   *)
(* is in 10..19 and to_chars unchanged otherwise.  Magnitude 10 renders    *)
(* lowercase as Shi alone, 19 as Shi, Nine and 21 as Two, Shi, One.        *)
(***************************************************************************)
C3_LowercaseDropsLeadingOne ==
    (Rendered /\ op.case = "lower") =>
        LET n        == num.val
            expected == IF LeadingInTeens(n) THEN WithoutLastOne(to_chars(n))
                        ELSE to_chars(n)
            digits   == SubSeq(text, SignLen(n) + 1, Len(text))
        IN  /\ to_chars_trimmed(n) = expected
            /\ chars = push_sign(expected, n.sign)
            /\ n.data = Dec(10) => digits = <<Glyph(op, "Shi")>>
            /\ n.data = Dec(19) =>
                   digits = <<Glyph(op, "Shi"), Glyph(op, "Nine")>>
            /\ n.data = Dec(21) =>
                   digits = <<Glyph(op, "Two"), Glyph(op, "Shi"),
                              Glyph(op, "One")>>

C3_Witness ==
    /\ Rendered
    /\ op.case = "lower"
    /\ num.val.ty = "LongScaleInt"
    /\ num.val.data = Groups(<<0, 12>>)
    /\ to_chars(num.val) = <<"Wan", "Two", "Shi", "One">>
    /\ chars = <<"Wan", "Two", "Shi">>

(***************************************************************************)
(* C4.  Uppercase rendering maps the whole of to_chars: when the leading   *)
(* value is in 10..19 the most significant symbol it renders is One, and   *)
(* Shi comes directly after it in the text.                                *)
(***************************************************************************)
C4_UppercaseKeepsLeadingOne ==
    (Rendered /\ op.case = "upper") =>
        LET n    == num.val
            full == to_chars(n)
            k    == SignLen(n)
        IN  /\ chars = push_sign(full, n.sign)
            /\ Len(text) = Len(full) + k
            /\ \A i \in 1..Len(full) :
                   text[k + i] = Glyph(op, full[Len(full) + 1 - i])
            /\ LeadingInTeens(n) =>
                   /\ full[Len(full)] = "One"
                   /\ full[Len(full) - 1] = "Shi"
                   /\ text[k + 1] = Glyph(op, "One")
                   /\ text[k + 2] = Glyph(op, "Shi")

C4_Witness ==
    /\ Rendered
    /\ op = [case |-> "upper", variant |-> "Simplified"]
    /\ num.val.ty = "MidScaleBigInt"
    /\ num.val.data = Groups(<<0, 12>>)
    /\ text = <<22777, 25342, 36144, 19975>>

(***************************************************************************)
(* C5 as stated: the symbol sequence mapped to characters is the same in   *)
(* all four renderings of a numeral.                                       *)
(***************************************************************************)
C5_SameSequenceInAllFour ==
    Rendered =>
        /\ chars = lowercase_chars(num.val)
        /\ chars = uppercase_chars(num.val)

(***************************************************************************)
(* C5, amended.  The symbol sequence mapped to characters is the same in   *)
(* the two variants of one case, and each text is that sequence reversed   *)
(* and mapped symbol by symbol through the table of its rendering.  The    *)
(* lowercase sequence is the uppercase sequence, except when the leading   *)
(* value is in 10..19: there it is the uppercase sequence without its most *)
(* significant One.                                                        *)
(***************************************************************************)
C5_SameSequenceButLeadingOne ==
    Rendered =>
        LET n     == num.val
            lower == lowercase_chars(n)
            upper == uppercase_chars(n)
            one   == Len(upper) - SignLen(n)
        IN  /\ chars = IF op.case = "lower" THEN lower ELSE upper
            /\ \A variant \in Variant :
                   LET o == [op EXCEPT !.variant = variant]
                       t == Render(n, o)
                   IN  /\ Len(t) = Len(chars)
                       /\ \A i \in 1..Len(t) :
                              t[i] = Glyph(o, chars[Len(chars) + 1 - i])
            /\ text = Render(n, op)
            /\ ~LeadingInTeens(n) => lower = upper
            /\ LeadingInTeens(n) =>
                   /\ upper[one] = "One"
                   /\ lower = SubSeq(upper, 1, one - 1)
                              \o SubSeq(upper, one + 1, Len(upper))

C5_Witness ==
    /\ Rendered
    /\ op = [case |-> "lower", variant |-> "Traditional"]
    /\ num.val.sign = "Neg"
    /\ num.val.data = Dec(15)
    /\ uppercase_chars(num.val) = <<"Five", "Shi", "One", "Neg">>
    /\ chars = <<"Five", "Shi", "Neg">>
    /\ text = <<36000, 21313, 20116>>

\* digits lo..hi of magnitude m (digit 1 is the units digit), as a magnitude
Slice(m, lo, hi) ==
    IF lo > Len(m) THEN << >>
    ELSE Norm(SubSeq(m, lo, IF hi < Len(m) THEN hi ELSE Len(m)))

\* the text of the symbols s, which are in the order of the Vec
TextOf(o, s) == [i \in 1..Len(s) |-> Glyph(o, s[Len(s) + 1 - i])]

\* the digit characters of the rendered text: the text after its sign
Digits == SubSeq(text, SignLen(num.val) + 1, Len(text))

(***************************************************************************)
(* C6.  In the engines of width 1 (Short), 4 (Myriad) and 8 (Mid),         *)
(* to_chars is, group by group from the least significant, the pieces of   *)
(* the nonzero groups, and the piece of group g is one Zero exactly when   *)
(* some lower group is nonzero and group g-1 is below 10^(width-1), then   *)
(* the marker of g for g > 0, then the content of g.  In the text the Zero *)
(* follows the marker and content of g.  Myriad 10005 is One, Wan, Zero,   *)
(* Five; 12345 has no Zero.                                                *)
(***************************************************************************)
C6_Width(ty) ==
    CASE ty = "ShortScaleInt"                          -> 1
      [] ty \in {"MyriadScaleInt", "MyriadScaleBigInt"} -> 4
      [] ty \in {"MidScaleInt", "MidScaleBigInt"}       -> 8

C6_Group(ty, m, g) == Slice(m, g * C6_Width(ty) + 1, (g + 1) * C6_Width(ty))

C6_Filler(ty, m, g) ==
    /\ C6_Group(ty, m, g) # << >>
    /\ Slice(m, 1, g * C6_Width(ty)) # << >>
    /\ Lt(C6_Group(ty, m, g - 1), Pow10(C6_Width(ty) - 1))

C6_Piece(ty, m, g) ==
    LET w    == C6_Width(ty)
        part == [ty |-> "none", sign |-> "Pos", data |-> C6_Group(ty, m, g)]
    IN  IF part.data = << >> THEN << >>
        ELSE (IF C6_Filler(ty, m, g) THEN <<"Zero">> ELSE << >>)
             \o (IF g = 0 THEN << >>
                 ELSE <<NumCharAt((IF w = 1 THEN 9 ELSE IF w = 4 THEN 12
                                   ELSE 13) + g)>>)
             \o (IF w = 1 THEN <<NumCharAt(Val(part.data))>>
                 ELSE IF w = 4 THEN ShortScaleInt_to_chars(part)
                 ELSE MyriadScaleInt_to_chars(part))

RECURSIVE C6_Pieces(_, _, _)
C6_Pieces(ty, m, g) ==
    IF g * C6_Width(ty) >= Len(m) THEN << >>
    ELSE C6_Piece(ty, m, g) \o C6_Pieces(ty, m, g + 1)

C6_Linear ==
    {"ShortScaleInt", "MyriadScaleInt", "MyriadScaleBigInt", "MidScaleInt",
     "MidScaleBigInt"}

\* C6: to_chars of a linear engine is its pieces, with the Zero of a group
\* exactly where the filler rule puts it
C6_ZeroFillerOfLinearEngines ==
    (Rendered /\ op.case = "upper" /\ num.val.ty \in C6_Linear) =>
        LET n == num.val
        IN  /\ to_chars(n) = C6_Pieces(n.ty, n.data, 0)
            /\ Digits = TextOf(op, C6_Pieces(n.ty, n.data, 0))
            /\ (C6_Width(n.ty) = 4 /\ n.data = Groups(<<5, 1>>)) =>
                   Rev(to_chars(n)) = <<"One", "Wan", "Zero", "Five">>
            /\ (C6_Width(n.ty) = 4 /\ n.data = Groups(<<2345, 1>>)) =>
                   \A i \in 1..Len(to_chars(n)) : to_chars(n)[i] # "Zero"

C6_Witness ==
    /\ Rendered
    /\ op = [case |-> "upper", variant |-> "Simplified"]
    /\ num.val.ty = "MyriadScaleInt"
    /\ num.val.data = Groups(<<5, 1>>)
    /\ C6_Filler("MyriadScaleInt", num.val.data, 1)
    /\ chars = <<"Five", "Zero", "Wan", "One">>
    /\ text = <<22777, 19975, 38646, 20237>>

(***************************************************************************)
(* The Short-scale symbols of a magnitude as C7 lists them, from the most  *)
(* significant digit: each nonzero digit, then the marker of its position  *)
(* (none for the units), with one Zero before a nonzero digit that a run   *)
(* of zero digits separates from the nonzero digit above it.               *)
(***************************************************************************)
C7_Marker ==
    <<"Shi", "Bai", "Qian", "Wan", "Yi", "Zhao", "Jing", "Gai", "Zi", "Rang",
      "Gou", "Jian", "Zheng", "Zai">>

C7_Digit ==
    <<"One", "Two", "Three", "Four", "Five", "Six", "Seven", "Eight", "Nine">>

\* position i counts from 0 at the units digit, which is m[1]
RECURSIVE C7_Listed(_, _)
C7_Listed(m, i) ==
    IF i < 0 THEN << >>
    ELSE (IF m[i + 1] = 0 THEN << >>
          ELSE (IF i + 1 < Len(m) /\ m[i + 2] = 0 THEN <<"Zero">> ELSE << >>)
               \o <<C7_Digit[m[i + 1]]>>
               \o (IF i >= 1 THEN <<C7_Marker[i]>> ELSE << >>))
         \o C7_Listed(m, i - 1)

\* the characters of symbols listed from the most significant
C7_Text(o, s) == [i \in 1..Len(s) |-> Glyph(o, s[i])]

C7_Applies ==
    /\ Rendered
    /\ num.val.ty = "ShortScaleInt"
    /\ num.val.data # << >>
    /\ Le(num.val.data, Nines(15))

(***************************************************************************)
(* C7 as stated: in both cases the Short-scale text lists every nonzero    *)
(* digit with its marker, with one Zero for each run of zero digits        *)
(* between two nonzero digits.                                             *)
(***************************************************************************)
C7_ShortListsEveryDigit ==
    C7_Applies =>
        Digits = C7_Text(op, C7_Listed(num.val.data, Len(num.val.data) - 1))

(***************************************************************************)
(* C7, amended.  The Short-scale text lists every nonzero digit followed   *)
(* by the marker of its position, with one Zero for each run of zero       *)
(* digits between two nonzero digits, in uppercase and in lowercase;       *)
(* except that lowercase leaves out the digit One of the tens when the     *)
(* magnitude is in 10..19.  102030405 is 一垓零二兆零三万零四百零五 in      *)
(* lowercase simplified and 壹垓零贰兆零叁万零肆佰零伍 in uppercase         *)
(* simplified.                                                             *)
(***************************************************************************)
C7_ShortListsDigitsButLeadingOne ==
    C7_Applies =>
        LET m      == num.val.data
            listed == C7_Listed(m, Len(m) - 1)
            teen   == Len(m) = 2 /\ m[2] = 1
        IN  /\ Digits = C7_Text(op, IF op.case = "lower" /\ teen
                                     THEN Tail(listed) ELSE listed)
            /\ (m = Groups(<<405, 203, 1>>) /\ op.variant = "Simplified") =>
                   Digits =
                       IF op.case = "lower"
                       THEN <<19968, 22419, 38646, 20108, 20806, 38646, 19977,
                              19975, 38646, 22235, 30334, 38646, 20116>>
                       ELSE <<22777, 22419, 38646, 36144, 20806, 38646, 21441,
                              19975, 38646, 32902, 20336, 38646, 20237>>

C7_Witness ==
    /\ C7_Applies
    /\ op = [case |-> "lower", variant |-> "Simplified"]
    /\ num.val.data = Groups(<<405, 203, 1>>)
    /\ text = <<19968, 22419, 38646, 20108, 20806, 38646, 19977, 19975, 38646,
                22235, 30334, 38646, 20116>>

(***************************************************************************)
(* C8.  MidScaleInt::to_chars takes the magnitude in groups of 8 digits    *)
(* from the least significant.  A zero group gives nothing; a nonzero      *)
(* group gives, after a Zero or without one, its marker - none for group   *)
(* 0 and Yi, Zhao, Jing, Gai for groups 1..4, never Wan - and then the     *)
(* Myriad to_chars of the group's value.  102030405 is                     *)
(* 一億零二百零三萬零四百零五 in lowercase traditional.                     *)
(***************************************************************************)
C8_Marker == <<"Yi", "Zhao", "Jing", "Gai">>

\* s from index pos on is the pieces of groups g, g + 1, ... of m
RECURSIVE C8_Fits(_, _, _, _)
C8_Fits(m, g, pos, s) ==
    IF 8 * g >= Len(m) THEN pos = Len(s) + 1
    ELSE LET value   == Slice(m, 8 * g + 1, 8 * g + 8)
             start   == IF pos > 1 /\ pos <= Len(s) /\ s[pos] = "Zero"
                        THEN pos + 1 ELSE pos
             marker  == IF g = 0 THEN << >> ELSE <<C8_Marker[g]>>
             content == MyriadScaleInt_to_chars(MyriadScaleInt_new("Pos", value))
             piece   == marker \o content
         IN  IF value = << >> THEN C8_Fits(m, g + 1, pos, s)
             ELSE /\ start + Len(piece) - 1 <= Len(s)
                  /\ SubSeq(s, start, start + Len(piece) - 1) = piece
                  /\ C8_Fits(m, g + 1, start + Len(piece), s)

\* C8: MidScaleInt::to_chars is the pieces of its 8-digit groups, marked Yi,
\* Zhao, Jing, Gai, each with the Myriad to_chars of the group
C8_MidGroupsOfEight ==
    (Rendered /\ num.val.ty = "MidScaleInt" /\ num.val.data # << >>) =>
        LET n == num.val
        IN  /\ C8_Fits(n.data, 0, 1, to_chars(n))
            /\ op.case = "upper" => chars = push_sign(to_chars(n), n.sign)
            /\ (n.data = Groups(<<405, 203, 1>>) /\ op.case = "lower"
                /\ op.variant = "Traditional") =>
                   Digits = <<19968, 20740, 38646, 20108, 30334, 38646, 19977,
                              33836, 38646, 22235, 30334, 38646, 20116>>

C8_Witness ==
    /\ Rendered
    /\ op = [case |-> "lower", variant |-> "Traditional"]
    /\ num.val.ty = "MidScaleInt"
    /\ num.val.data = Groups(<<405, 203, 1>>)
    /\ chars = <<"Five", "Zero", "Bai", "Four", "Zero", "Wan", "Three", "Zero",
                 "Bai", "Two", "Zero", "Yi", "One">>
    /\ text = <<19968, 20740, 38646, 20108, 30334, 38646, 19977, 33836, 38646,
                22235, 30334, 38646, 20116>>

(***************************************************************************)
(* C9.  LongScaleBigInt::to_chars writes a magnitude as                    *)
(* c_k marker_k ... c_2 Jing c_1 Zhao c_0, where the markers Zhao, Jing,   *)
(* Gai, ..., Zai stand for 10^16, 10^32, 10^64, ..., 10^4096, each the     *)
(* square of the one before, every coefficient is below the value of its   *)
(* marker, c_0 and c_1 are rendered by the Mid engine and c_k for k >= 2   *)
(* by the Long engine itself.  13054805271563705972964 is                  *)
(* 一百三十万五千四百八十兆五千二百七十一万五千六百三十七亿零五百九十七万   *)
(* 二千九百六十四 in lowercase simplified.                                  *)
(***************************************************************************)
C9_Marker ==
    <<"Zhao", "Jing", "Gai", "Zi", "Rang", "Gou", "Jian", "Zheng", "Zai">>

\* the exponent of the value of marker k: 16, 32, 64, ..., 4096 for k = 1..9
C9_Exponent(k) == 16 * (2 ^ (k - 1))

\* c_k: what is left of m below the next marker's value, in units of marker k
C9_Coefficient(m, k) ==
    IF k = 0 THEN Slice(m, 1, 16)
    ELSE Slice(m, C9_Exponent(k) + 1,
               IF k = 9 THEN Len(m) ELSE C9_Exponent(k + 1))

\* s from index pos on is the pieces of c_k, c_(k+1), ..., c_9
RECURSIVE C9_Fits(_, _, _, _)
C9_Fits(m, k, pos, s) ==
    IF k > 9 THEN pos = Len(s) + 1
    ELSE LET c       == C9_Coefficient(m, k)
             start   == IF pos > 1 /\ pos <= Len(s) /\ s[pos] = "Zero"
                        THEN pos + 1 ELSE pos
             marker  == IF k = 0 THEN << >> ELSE <<C9_Marker[k]>>
             content ==
                 IF k <= 1
                 THEN MidScaleInt_to_chars(
                          [ty |-> "MidScaleInt", sign |-> "Pos", data |-> c])
                 ELSE LongScaleBigInt_to_chars(
                          [ty |-> "LongScaleBigInt", sign |-> "Pos", data |-> c])
             piece   == marker \o content
         IN  IF c = << >> THEN C9_Fits(m, k + 1, pos, s)
             ELSE /\ k >= 1 => Lt(c, Pow10(C9_Exponent(k)))
                  /\ start + Len(piece) - 1 <= Len(s)
                  /\ SubSeq(s, start, start + Len(piece) - 1) = piece
                  /\ C9_Fits(m, k + 1, start + Len(piece), s)

\* C9: LongScaleBigInt::to_chars is the pieces of the coefficients of 10^16,
\* 10^32, ..., 10^4096, by the Mid engine for c_0 and c_1 and by itself above
C9_LongNameOfAName ==
    (Rendered /\ num.val.ty = "LongScaleBigInt" /\ num.val.data # << >>) =>
        LET n == num.val
        IN  /\ C9_Fits(n.data, 0, 1, to_chars(n))
            /\ op.case = "upper" => chars = push_sign(to_chars(n), n.sign)
            /\ (n.data = Groups(<<2964, 597, 5637, 5271, 5480, 130>>)
                /\ op = [case |-> "lower", variant |-> "Simplified"]) =>
                   Digits = <<19968, 30334, 19977, 21313, 19975, 20116, 21315,
                              22235, 30334, 20843, 21313, 20806, 20116, 21315,
                              20108, 30334, 19971, 21313, 19968, 19975, 20116,
                              21315, 20845, 30334, 19977, 21313, 19971, 20159,
                              38646, 20116, 30334, 20061, 21313, 19971, 19975,
                              20108, 21315, 20061, 30334, 20845, 21313, 22235>>

\* 10^64 + 10^32 in upper case: One, Gai, Zero, One, Jing
C9_Witness ==
    /\ Rendered
    /\ op = [case |-> "upper", variant |-> "Simplified"]
    /\ num.val.ty = "LongScaleBigInt"
    /\ num.val.sign = "Pos"
    /\ Len(num.val.data) = 65
    /\ C9_Coefficient(num.val.data, 2) = Dec(1)
    /\ C9_Coefficient(num.val.data, 3) = Dec(1)
    /\ chars = <<"Jing", "One", "Zero", "Gai", "One">>
    /\ text = <<22777, 22419, 38646, 22777, 20140>>

(***************************************************************************)
(* C10 as stated: for the symbols One..Nine, Shi, Bai and Qian the         *)
(* uppercase traditional character is the uppercase simplified one, except *)
(* Two, Three and Six, which are 貳, 叄 and 陸; MidScaleInt 102030405 is    *)
(* 壹億零貳佰零叄萬零肆佰零伍 in uppercase traditional.                     *)
(***************************************************************************)
C10_Financial ==
    {"One", "Two", "Three", "Four", "Five", "Six", "Seven", "Eight", "Nine",
     "Shi", "Bai", "Qian"}

\* C10: uppercase traditional is uppercase simplified but for Two, Three, Six
C10_UppercaseTradIsFinancial ==
    (Rendered /\ op = [case |-> "upper", variant |-> "Traditional"]) =>
        /\ \A i \in 1..Len(chars) :
               chars[i] \in C10_Financial =>
                   text[Len(chars) + 1 - i] =
                       CASE chars[i] = "Two"   -> 36019
                         [] chars[i] = "Three" -> 21444
                         [] chars[i] = "Six"   -> 38520
                         [] OTHER              -> to_uppercase_simp(chars[i])
        /\ (num.val.ty = "MidScaleInt" /\ num.val.sign = "Pos"
            /\ num.val.data = Groups(<<405, 203, 1>>)) =>
               text = <<22777, 20740, 38646, 36019, 20336, 38646, 21444, 33836,
                        38646, 32902, 20336, 38646, 20237>>

\* what the code gives for that example: 一億零貳百零叄萬零四百零五
C10_Witness ==
    /\ Rendered
    /\ op = [case |-> "upper", variant |-> "Traditional"]
    /\ num.val.ty = "MidScaleInt"
    /\ num.val.sign = "Pos"
    /\ num.val.data = Groups(<<405, 203, 1>>)
    /\ text = <<19968, 20740, 38646, 36019, 30334, 38646, 21444, 33836, 38646,
                22235, 30334, 38646, 20116>>

(***************************************************************************)
(* C11.  For each of the large-number names Yi, Zhao, Jing, Gai, Zi, Rang, *)
(* Gou, Jian, Zheng and Zai the uppercase character is the lowercase       *)
(* character of the same variant, in the tables and in every uppercase     *)
(* text.                                                                   *)
(***************************************************************************)
C11_LargeNames ==
    {"Yi", "Zhao", "Jing", "Gai", "Zi", "Rang", "Gou", "Jian", "Zheng", "Zai"}

C11_LargeNamesKeepLowercaseGlyph ==
    (Rendered /\ op.case = "upper") =>
        /\ \A s \in C11_LargeNames :
               /\ to_uppercase_simp(s) = to_lowercase_simp(s)
               /\ to_uppercase_trad(s) = to_lowercase_trad(s)
        /\ \A i \in 1..Len(chars) :
               chars[i] \in C11_LargeNames =>
                   text[Len(chars) + 1 - i]
                       = lowercase_method(op.variant, chars[i])

\* 10^14 in uppercase traditional: the digit One, then 載
C11_Witness ==
    /\ Rendered
    /\ op = [case |-> "upper", variant |-> "Traditional"]
    /\ num.val.ty = "ShortScaleInt"
    /\ chars = <<"Zai", "One">>
    /\ text[2] = 36617
    /\ to_lowercase_simp("Zai") = 36733

\* the sign a numeral must have for the value v
SignOf(v) == IF v.mag = << >> THEN "Nil" ELSE IF v.neg THEN "Neg" ELSE "Pos"

(***************************************************************************)
(* C12 as stated: ShortScaleInt::try_from of a value v of u64, u128,       *)
(* usize, i64, i128 or isize is Ok with magnitude |v| and the sign of v    *)
(* exactly when |v| <= 10^15 - 1, and is otherwise                         *)
(* Err(ShortScaleOutOfRange(|v|)); also for v the minimum of its type.     *)
(***************************************************************************)
C12_ShortTryFromExact ==
    (pc # "start" /\ arg.ctor = "try_from" /\ arg.ty = "ShortScaleInt") =>
        LET v == arg.value
        IN  IF Le(v.mag, Nines(15))
            THEN num = Ok([ty |-> "ShortScaleInt", sign |-> SignOf(v),
                           data |-> v.mag])
            ELSE num = Err("ShortScaleOutOfRange", v.mag)

\* i64::MIN where overflow is not checked: the error carries 2^128 - 2^63
C12_Witness ==
    /\ pc = "failed"
    /\ arg.ctor = "try_from"
    /\ arg.pre = "i64"
    /\ arg.value = [neg |-> TRUE, mag |-> Succ(PrimMax("i64"))]
    /\ num = Err("ShortScaleOutOfRange", WrappedAbsMin64)
    /\ num.abs # arg.value.mag

(***************************************************************************)
(* C13.  T::try_from of a BigUint or BigInt v, for T one of the three      *)
(* BigInt types with ceiling C_T, is Ok exactly when |v| <= C_T, and then  *)
(* has magnitude |v| and the sign of v; otherwise it is Err of the variant *)
(* of that scale carrying |v|, and nothing is rendered.                    *)
(***************************************************************************)
C13_Variant(ty) ==
    CASE ty = "MyriadScaleBigInt" -> "MyriadScaleOutOfRange"
      [] ty = "MidScaleBigInt"    -> "MidScaleOutOfRange"
      [] ty = "LongScaleBigInt"   -> "LongScaleOutOfRange"

\* C13: try_from of a big integer accepts up to the ceiling and rejects above
C13_BigTryFromExact ==
    (pc # "start" /\ arg.ctor = "try_from" /\ arg.ty \in BigTypes) =>
        LET v == arg.value
        IN  IF Le(v.mag, MAX_ABS_ARR(arg.ty))
            THEN /\ num = Ok([ty |-> arg.ty, sign |-> SignOf(v),
                              data |-> v.mag])
                 /\ pc \in {"built", "rendered", "formatted"}
            ELSE /\ num = Err(C13_Variant(arg.ty), v.mag)
                 /\ pc = "failed"
                 /\ chars = << >>
                 /\ text = << >>

\* -10^88, one below the floor of MidScaleBigInt
C13_Witness ==
    /\ pc = "failed"
    /\ arg.ty = "MidScaleBigInt"
    /\ arg.pre = "BigInt"
    /\ arg.value = [neg |-> TRUE, mag |-> Pow10(88)]
    /\ num = Err("MidScaleOutOfRange", Pow10(88))

(***************************************************************************)
(* C14.  Rendering is total.  For every numeral the constructors and       *)
(* conversions give, to_chars, to_chars_trimmed, to_lowercase and          *)
(* to_uppercase end without a panic: no unwrap of a narrowed remainder or  *)
(* of the recursive try_from fails, every index into NUM_CHARS is one of   *)
(* 0..24, and the symbol to_chars_trimmed pops is One (the last symbol of  *)
(* to_chars is One whenever the leading value is in 10..19).               *)
(***************************************************************************)
C14_Symbols == NumChar \ {"Neg"}

\* C14: no rendering panics, and the popped symbol is One
C14_RenderingIsTotal ==
    pc = "rendered" =>
        LET n       == num.val
            all     == to_chars(n)
            trimmed == to_chars_trimmed(n)
        IN  /\ chars # Panic
            /\ all # Panic
            /\ trimmed # Panic
            /\ Len(NUM_CHARS) = 25
            /\ \A i \in 1..Len(all) : all[i] \in C14_Symbols
            /\ Len(text) = Len(chars)
            /\ \A i \in 1..Len(text) : text[i] \in Nat
            /\ LeadingInTeens(n) => all[Len(all)] = "One"
            /\ trimmed # all =>
                   /\ LeadingInTeens(n)
                   /\ all = trimmed \o <<"One">>

\* the ceiling of MidScaleBigInt: every group is 9999_9999, beyond u16
C14_Witness ==
    /\ pc = "rendered"
    /\ num.val.ty = "MidScaleBigInt"
    /\ num.val.data = Nines(88)
    /\ op.case = "lower"
    /\ chars # Panic
    /\ Len(text) > 88

(***************************************************************************)
(* C15.  T::from of a value v of a signed primitive type (i8, i16, i32 for *)
(* ShortScaleInt; i8..i128 and isize for the other three) has magnitude    *)
(* exactly |v| and sign Neg, Nil or Pos as v is, also for v the minimum of *)
(* its type, where the magnitude is MAX + 1 and fits the data field.       *)
(***************************************************************************)
\* the greatest value of the field `data` of a primitive type
C15_DataMax(ty) ==
    IF ty = "ShortScaleInt" THEN PrimMax("u64") ELSE PrimMax("u128")

\* C15: From of a signed primitive keeps |v| and the sign, MIN included
C15_FromSignedIsExact ==
    (pc # "start" /\ arg.ctor = "from" /\ arg.pre \in IntTypes) =>
        LET v == arg.value
        IN  /\ arg.pre \in FromIntTypes(arg.ty)
            /\ num = Ok([ty |-> arg.ty, sign |-> SignOf(v), data |-> v.mag])
            /\ Le(num.val.data, C15_DataMax(arg.ty))
            /\ IsMin(arg.pre, v) => num.val.data = Succ(PrimMax(arg.pre))

\* LongScaleInt::from(i128::MIN), of magnitude 2^127
C15_Witness ==
    /\ pc = "built"
    /\ arg.ctor = "from"
    /\ arg.ty = "LongScaleInt"
    /\ arg.pre = "i128"
    /\ IsMin("i128", arg.value)
    /\ num.val.sign = "Neg"
    /\ num.val.data =
           Groups(<<5728, 8410, 7158, 7303, 3168, 2317, 469, 8346, 1411, 170>>)

(***************************************************************************)
(* C16.  Display of every numeral type: the normal format "{}" writes      *)
(* exactly to_lowercase_simp() and the alternate format "{:#}" writes      *)
(* exactly to_uppercase_simp().                                            *)
(***************************************************************************)
C16_DisplayIsSimplified ==
    (pc = "formatted" /\ chars # Panic) =>
        LET n     == num.val
            lower == Rev(push_sign(to_chars_trimmed(n), n.sign))
            upper == Rev(push_sign(to_chars(n), n.sign))
        IN  /\ op.variant = "{}" =>
                   /\ text = to_lowercase(n, "Simplified")
                   /\ text = [i \in 1..Len(lower) |->
                                  to_lowercase_simp(lower[i])]
            /\ op.variant = "{:#}" =>
                   /\ text = to_uppercase(n, "Simplified")
                   /\ text = [i \in 1..Len(upper) |->
                                  to_uppercase_simp(upper[i])]

\* format!("{:#}", ShortScaleInt::from(1_0203_0405))
C16_Witness ==
    /\ pc = "formatted"
    /\ num.val = [ty |-> "ShortScaleInt", sign |-> "Pos",
                  data |-> Groups(<<405, 203, 1>>)]
    /\ op.variant = "{:#}"
    /\ text = <<22777, 22419, 38646, 36144, 20806, 38646, 21441, 19975,
                38646, 32902, 20336, 38646, 20237>>
    /\ text # to_lowercase(num.val, "Simplified")

(***************************************************************************)
(* C17.  In to_chars, read from the least significant symbol, the markers  *)
(* of one nesting depth come in strictly increasing order and none comes   *)
(* twice: in the short scale Shi..Zai; in the myriad, mid and long scales  *)
(* the markers of the groups, and inside the content of each group the     *)
(* markers of that content in the same way.                                *)
(***************************************************************************)
\* i with c = NUM_CHARS[i]
C17_Index(c) == (CHOOSE i \in 1..Len(NUM_CHARS) : NUM_CHARS[i] = c) - 1

\* the least index of a marker of each nesting depth of a type, outermost
\* first: the groups of 16, of 8 and of 4 digits, and the decimal digits
C17_Depths(ty) ==
    CASE ty = "ShortScaleInt" -> <<10>>
      [] ty \in {"MyriadScaleInt", "MyriadScaleBigInt"} -> <<13, 10>>
      [] ty \in {"MidScaleInt", "MidScaleBigInt"} -> <<14, 13, 10>>
      [] ty = "LongScaleInt" -> <<15, 14, 13, 10>>

\* the markers of the outermost depth of s increase strictly, and so do those
\* of every stretch of s between two of them, one depth further in
RECURSIVE C17_Ordered(_, _)
C17_Ordered(s, depths) ==
    IF depths = << >>
    THEN \A i \in 1..Len(s) : C17_Index(s[i]) < 10
    ELSE LET top == {i \in 1..Len(s) : C17_Index(s[i]) >= depths[1]}
             end(i) == IF \E j \in top : j > i
                       THEN (CHOOSE j \in top : j > i /\ \A k \in top :
                                                    k > i => j <= k) - 1
                       ELSE Len(s)
         IN  /\ \A i, j \in top :
                    i < j => C17_Index(s[i]) < C17_Index(s[j])
             /\ C17_Ordered(SubSeq(s, 1, end(0)), Tail(depths))
             /\ \A i \in top :
                    C17_Ordered(SubSeq(s, i + 1, end(i)), Tail(depths))

\* C17: markers of one nesting depth increase strictly
C17_MarkersIncrease ==
    (Rendered /\ op.case = "upper" /\ num.val.ty # "LongScaleBigInt") =>
        C17_Ordered(to_chars(num.val), C17_Depths(num.val.ty))

\* u128::MAX in the long scale: the groups of Zhao and Jing, each with
\* markers of all inner depths
C17_Witness ==
    /\ Rendered
    /\ op.case = "upper"
    /\ num.val.ty = "LongScaleInt"
    /\ num.val.data = PrimMax("u128")
    /\ Cardinality({i \in 1..Len(chars) : chars[i] = "Zhao"}) = 1
    /\ Cardinality({i \in 1..Len(chars) : chars[i] = "Jing"}) = 1
    /\ Cardinality({i \in 1..Len(chars) : chars[i] = "Qian"}) > 3

(***************************************************************************)
(* C18 as stated: in LongScaleBigInt::to_chars group 0 is split off with   *)
(* the divisor 10^16 and the divisor of each later group is the square of  *)
(* the divisor of the group before it: 10^16, 10^32, 10^64, 10^128, ...    *)
(***************************************************************************)
\* the number of digits of the divisor the iteration for exp divides by
C18_DivisorDigits(self, exp) == LongScaleBigInt_loop(self, exp - 1).div

C18_Applies ==
    /\ pc = "rendered"
    /\ op = [case |-> "lower", variant |-> "Simplified"]
    /\ num.val.ty = "LongScaleBigInt"
    /\ num.val.data # << >>

\* C18 as stated: the divisors of the groups are 10^16, 10^32, 10^64, ...
C18_DivisorSquaredFromGroupZero ==
    C18_Applies =>
        \A exp \in 14..23 :
            C18_DivisorDigits(num.val, exp) = 16 * (2 ^ (exp - 14))

(***************************************************************************)
(* C18 as the code has it: the groups of exp 14 and of exp 15 are both     *)
(* split off with 10^16, and from exp 16 on the divisor is the square of   *)
(* the one before: 10^16, 10^16, 10^32, 10^64, ..., 10^4096.  What has     *)
(* been divided away after the iteration for exp is 10^(16 * 2^(exp-14)).  *)
(***************************************************************************)
C18_DivisorSquaredFromGroupOne ==
    C18_Applies =>
        \A exp \in 14..23 :
            /\ C18_DivisorDigits(num.val, exp) =
                   IF exp = 14 THEN 16 ELSE 16 * (2 ^ (exp - 15))
            /\ LongScaleBigInt_loop(num.val, exp).num =
                   DivPow10(num.val.data, 16 * (2 ^ (exp - 14)))

\* 10^8192 - 1, the ceiling: every group is full
C18_Witness ==
    /\ C18_Applies
    /\ chars # Panic
    /\ num.val.data = Nines(8192)
    /\ C18_DivisorDigits(num.val, 15) = 16
    /\ C18_DivisorDigits(num.val, 16) = 32
    /\ C18_DivisorDigits(num.val, 23) = 4096

(***************************************************************************)
(* C19.  LongScaleBigInt::to_chars terminates: every recursive call is on  *)
(* a group remainder smaller than the magnitude of the invocation that     *)
(* makes it; the call for the group of tier k makes recursive calls only   *)
(* for tiers below k, the higher groups of the remainder being zero; so    *)
(* the calls nest no deeper than there are tiers.                          *)
(***************************************************************************)
\* every call of `calls`, made by an invocation on magnitude mag that is
\* itself the call for tier k, is for a tier of 16..23 below k, on a nonzero
\* remainder below mag and below the divisor of its tier; and so on inside
RECURSIVE C19_Decreases(_, _, _)
C19_Decreases(mag, k, calls) ==
    \A c \in calls :
        /\ c.exp \in 16..23
        /\ c.exp < k
        /\ c.rem # << >>
        /\ Lt(c.rem, mag)
        /\ Len(c.rem) <= 16 * (2 ^ (c.exp - 15))
        /\ C19_Decreases(c.rem, c.exp, c.calls)

\* how deep the calls nest
RECURSIVE C19_Depth(_)
C19_Depth(calls) ==
    IF calls = {} THEN 0
    ELSE LET inner == {C19_Depth(c.calls) : c \in calls}
         IN  1 + (CHOOSE d \in inner : \A e \in inner : e <= d)

\* C19: recursive calls are on smaller magnitudes and lower tiers
C19_RecursionDecreases ==
    C18_Applies =>
        LET calls == LongScaleBigInt_loop(num.val, 23).calls
        IN  /\ C19_Decreases(num.val.data, 24, calls)
            /\ 1 + C19_Depth(calls) <= 10

\* the ceiling 10^8192 - 1: a call for each of the tiers 16..23, nested
\* eight deep
C19_Witness ==
    /\ C18_Applies
    /\ chars # Panic
    /\ num.val.data = Nines(8192)
    /\ LET calls == LongScaleBigInt_loop(num.val, 23).calls
       IN  /\ {c.exp : c \in calls} = 16..23
           /\ C19_Depth(calls) = 8

(***************************************************************************)
(* C20.  Round trip.  Evaluating to_chars by the place values of the scale *)
(* (a digit times the value of its marker, a group marker times the value  *)
(* of the content of its group, Zero counting nothing) gives back the      *)
(* magnitude, for every magnitude up to and including the ceiling of the   *)
(* type; so the loop has consumed the whole magnitude when it ends, and    *)
(* to_chars is injective within a scale.                                   *)
(***************************************************************************)
\* what an evaluation gives when two of its terms claim the same digits
C20_Bad == <<-1>>

\* the nesting of a scale, outermost first
C20_Levels(ty) ==
    CASE ty = "ShortScaleInt" -> <<"short">>
      [] ty \in {"MyriadScaleInt", "MyriadScaleBigInt"} -> <<"myriad", "short">>
      [] ty \in {"MidScaleInt", "MidScaleBigInt"} ->
             <<"mid", "myriad", "short">>
      [] ty \in {"LongScaleInt", "LongScaleBigInt"} ->
             <<"long", "mid", "myriad", "short">>

\* the least index in NUM_CHARS of a marker of a level
C20_First(level) ==
    CASE level = "short"  -> 10
      [] level = "myriad" -> 13
      [] level = "mid"    -> 14
      [] level = "long"   -> 15

\* the number of zeros of the value a level gives the marker NUM_CHARS[i]
C20_Zeros(level, i) ==
    CASE level = "short"  -> i - 9
      [] level = "myriad" -> 4 * (i - 12)
      [] level = "mid"    -> 8 * (i - 13)
      [] level = "long"   -> 16 * (2 ^ (i - 15))

\* the sum of v * 10^e over the terms: each term fills digits of its own
C20_Sum(terms) ==
    LET live == {t \in terms : t.v # << >>}
        top  == CHOOSE n \in {t.e + Len(t.v) : t \in live} :
                    \A t \in live : t.e + Len(t.v) <= n
    IN  IF \E t \in terms : t.v = C20_Bad THEN C20_Bad
        ELSE IF live = {} THEN << >>
        ELSE IF \E a, b \in live :
                    a # b /\ a.e <= b.e /\ b.e < a.e + Len(a.v)
        THEN C20_Bad
        ELSE [j \in 1..top |->
                 IF \E t \in live : t.e < j /\ j <= t.e + Len(t.v)
                 THEN LET t == CHOOSE t \in live :
                                   t.e < j /\ j <= t.e + Len(t.v)
                      IN  t.v[j - t.e]
                 ELSE 0]

\* the value of ix, the indices in NUM_CHARS of a symbol sequence, least
\* significant first.  At the level of the digits, a digit counts with the
\* value of the marker pushed before it; at a level of groups, the markers
\* of the groups are those greater than every marker before them, what is
\* before the first one is group 0, and what follows a marker up to the next
\* one is the content of its group.
RECURSIVE C20_Eval(_, _)
C20_Eval(ix, levels) ==
    IF levels[1] = "short" THEN
        C20_Sum({[i |-> i,
                  e |-> IF i > 1 /\ ix[i - 1] >= 10
                        THEN C20_Zeros("short", ix[i - 1]) ELSE 0,
                  v |-> <<ix[i]>>] :
                 i \in {i \in 1..Len(ix) : ix[i] \in 1..9}})
    ELSE
        LET level == levels[1]
            K     == {i \in 1..Len(ix) : ix[i] >= C20_First(level)}
            top   == {i \in K : \A j \in K : j < i => ix[j] < ix[i]}
            end(i) == IF \E j \in top : j > i
                      THEN (CHOOSE j \in top :
                                j > i /\ \A k \in top : k > i => j <= k) - 1
                      ELSE Len(ix)
        IN  IF top = {} THEN C20_Eval(ix, Tail(levels))
            ELSE C20_Sum(
                     {[i |-> 0, e |-> 0,
                       v |-> C20_Eval(SubSeq(ix, 1, end(0)), Tail(levels))]}
                     \cup
                     {[i |-> i, e |-> C20_Zeros(level, ix[i]),
                       v |-> C20_Eval(SubSeq(ix, i + 1, end(i)), levels)] :
                      i \in top})

C20_Applies ==
    /\ Rendered
    /\ op = [case |-> "upper", variant |-> "Simplified"]

\* C20: evaluating to_chars gives back the magnitude
C20_RoundTrip ==
    C20_Applies =>
        LET n   == num.val
            all == to_chars(n)
            ix  == [i \in 1..Len(all) |-> C17_Index(all[i])]
        IN  /\ C20_Eval(ix, C20_Levels(n.ty)) = n.data
            /\ n.ty = "LongScaleBigInt" =>
                   LongScaleBigInt_loop(n, 23).num = << >>

\* 10^48 - 1, the ceiling of MyriadScaleBigInt: twelve groups of 9999
C20_Witness ==
    /\ C20_Applies
    /\ num.val.ty = "MyriadScaleBigInt"
    /\ num.val.data = Nines(48)
    /\ Cardinality({i \in 1..Len(chars) : chars[i] = "Nine"}) = 48
    /\ Cardinality({i \in 1..Len(chars) : chars[i] = "Zai"}) = 1

(***************************************************************************)
(* C21 as stated: every numeral the constructors and conversions give has  *)
(* sign Nil exactly when its magnitude is 0, whichever of the three signs  *)
(* MyriadScaleInt::new or LongScaleInt::new was given; so the text of a    *)
(* nonzero magnitude never starts with the character of Zero.              *)
(***************************************************************************)
C21_NilIffZero ==
    pc \in {"built", "rendered", "formatted"} =>
        /\ num.val.sign = "Nil" <=> num.val.data = << >>
        /\ (pc # "built" /\ chars # Panic /\ num.val.data # << >>) =>
               text[1] # to_lowercase_simp("Zero")

\* MyriadScaleInt::new(Sign::Nil, 15).to_lowercase_simp(): Zero, Shi, Five
C21_Witness ==
    /\ pc = "rendered"
    /\ arg.ctor = "new"
    /\ arg.sign = "Nil"
    /\ num.val = [ty |-> "MyriadScaleInt", sign |-> "Nil", data |-> Dec(15)]
    /\ op = [case |-> "lower", variant |-> "Simplified"]
    /\ text = <<38646, 21313, 20116>>

(***************************************************************************)
(* C22.  The bounded and the unbounded engine of a scale agree: for every  *)
(* magnitude m <= u128::MAX, to_chars and to_chars_trimmed of              *)
(* MyriadScaleBigInt, MidScaleBigInt and LongScaleBigInt holding m give    *)
(* the symbols those of MyriadScaleInt, MidScaleInt and LongScaleInt       *)
(* holding m give; the filler of the long scale is the same in both.       *)
(***************************************************************************)
\* the primitive type of the scale of a type, and the BigInt type
C22_Bounded(ty) ==
    CASE ty \in {"MyriadScaleInt", "MyriadScaleBigInt"} -> "MyriadScaleInt"
      [] ty \in {"MidScaleInt", "MidScaleBigInt"}       -> "MidScaleInt"
      [] ty \in {"LongScaleInt", "LongScaleBigInt"}     -> "LongScaleInt"

C22_Unbounded(ty) ==
    CASE ty \in {"MyriadScaleInt", "MyriadScaleBigInt"} -> "MyriadScaleBigInt"
      [] ty \in {"MidScaleInt", "MidScaleBigInt"}       -> "MidScaleBigInt"
      [] ty \in {"LongScaleInt", "LongScaleBigInt"}     -> "LongScaleBigInt"

C22_Applies ==
    /\ Rendered
    /\ op = [case |-> "lower", variant |-> "Simplified"]
    /\ num.val.ty # "ShortScaleInt"
    /\ Le(num.val.data, PrimMax("u128"))

\* C22: the two engines of a scale give the same symbols up to u128::MAX
C22_EnginesAgree ==
    C22_Applies =>
        LET small == [num.val EXCEPT !.ty = C22_Bounded(num.val.ty)]
            big   == [num.val EXCEPT !.ty = C22_Unbounded(num.val.ty)]
        IN  /\ to_chars(big) = to_chars(small)
            /\ to_chars_trimmed(big) = to_chars_trimmed(small)

\* 10^31 + 10^32 in LongScaleBigInt: the group of Zhao is 10^15, so no
\* filler goes before the group of Jing
C22_Witness ==
    /\ C22_Applies
    /\ num.val.ty = "LongScaleBigInt"
    /\ num.val.data = Sparse(4, (7 :> 1000) @@ (8 :> 1))
    /\ chars = <<"Zhao", "Yi", "Wan", "Qian", "One", "Jing", "One">>

(***************************************************************************)
(* C23.  The shape of the filler.  For every scale and every nonzero       *)
(* magnitude, to_chars, all nesting depths taken together, has no two      *)
(* adjacent Zero symbols, neither begins nor ends with Zero, and has a     *)
(* marker directly after every Zero (least significant first); so the      *)
(* text of a nonzero magnitude has no doubled and no trailing character of *)
(* Zero.                                                                   *)
(***************************************************************************)
C23_Markers == {NumCharAt(i) : i \in 10..23}

\* C23: every Zero of to_chars stands between a symbol and a marker
C23_FillerShape ==
    (Rendered /\ num.val.data # << >>) =>
        LET all == to_chars(num.val)
            n   == Len(all)
            z   == Glyph(op, "Zero")
        IN  /\ n > 0
            /\ all[1] # "Zero"
            /\ all[n] # "Zero"
            /\ \A i \in 1..(n - 1) :
                   all[i] = "Zero" =>
                       /\ all[i + 1] \in C23_Markers
                       /\ all[i + 1] # "Zero"
            /\ text[Len(text)] # z
            /\ \A i \in 1..(Len(text) - 1) : ~(text[i] = z /\ text[i + 1] = z)

\* 1_0203_0405 in the long scale: four fillers, at three nesting depths
C23_Witness ==
    /\ Rendered
    /\ op = [case |-> "upper", variant |-> "Traditional"]
    /\ num.val.ty = "LongScaleInt"
    /\ num.val.sign = "Pos"
    /\ num.val.data = Groups(<<405, 203, 1>>)
    /\ Cardinality({i \in 1..Len(chars) : chars[i] = "Zero"}) = 4
    /\ chars[2] = "Zero"

(***************************************************************************)
(* The derived ordering.  #[derive(PartialOrd, Ord)] compares the fields   *)
(* in the order of their declaration, sign and then data, and the variants *)
(* of Sign in the order of theirs, Neg, Nil, Pos.                          *)
(***************************************************************************)
\* ShortScaleInt::MAX and ShortScaleInt::MIN
ShortScaleInt_MAX ==
    [ty |-> "ShortScaleInt", sign |-> "Pos", data |-> ShortScaleInt_MAX_ABS]

ShortScaleInt_MIN ==
    [ty |-> "ShortScaleInt", sign |-> "Neg", data |-> ShortScaleInt_MAX_ABS]

\* the discriminant of a variant of Sign
Sign_discriminant(sign) ==
    CASE sign = "Neg" -> 0
      [] sign = "Nil" -> 1
      [] sign = "Pos" -> 2

\* the derived Ord::cmp of a numeral type
cmp(self, other) ==
    IF Sign_discriminant(self.sign) < Sign_discriminant(other.sign) THEN "Less"
    ELSE IF Sign_discriminant(self.sign) > Sign_discriminant(other.sign)
    THEN "Greater"
    ELSE IF Lt(self.data, other.data) THEN "Less"
    ELSE IF Lt(other.data, self.data) THEN "Greater"
    ELSE "Equal"

\* where a.cmp(&b) leaves the program: the two arguments x and y the
\* numerals a and b were built from, the numerals, and the Ordering
Compared(ty, pre, x, y, a, b) ==
    /\ pc = "start"
    /\ pc' = "compared"
    /\ arg' = [ctor |-> "cmp", ty |-> ty, pre |-> pre, sign |-> "none",
               value |-> x, other |-> y]
    /\ num' = [ok |-> TRUE, val |-> a, other |-> b]
    /\ op' = [case |-> "cmp", variant |-> cmp(a, b)]
    /\ UNCHANGED <<chars, text>>

\* T::from(x).cmp(&T::from(y)) for x and y of i32
CmpFromInt ==
    \E ty \in PrimTypes :
        \E x \in EdgeValues("i32"), y \in EdgeValues("i32") :
            Compared(ty, "i32", x, y,
                     from_int(ty, "i32", x), from_int(ty, "i32", y))

\* ShortScaleInt::MIN.cmp(&ShortScaleInt::from(y)), and the same for MAX
CmpShortConst ==
    \E a \in {ShortScaleInt_MIN, ShortScaleInt_MAX} :
        \E y \in EdgeValues("i32") :
            Compared("ShortScaleInt", "i32",
                     [neg |-> a.sign = "Neg", mag |-> a.data], y,
                     a, from_int("ShortScaleInt", "i32", y))

\* T::try_from(&x).unwrap().cmp(&T::try_from(&y).unwrap()) for BigInts x, y
CmpTryFromBigInt ==
    \E ty \in BigTypes :
        \E x, y \in {v \in [neg : BOOLEAN,
                            mag : {<< >>, Dec(1), Dec(15), MAX_ABS_ARR(ty)}] :
                        v.mag = << >> => ~v.neg} :
            Compared(ty, "BigInt", x, y,
                     try_from_bigint(ty, x).val, try_from_bigint(ty, y).val)

NextOrd ==
    \/ CmpFromInt
    \/ CmpShortConst
    \/ CmpTryFromBigInt

SpecOrd == Init /\ [][NextOrd]_vars

(***************************************************************************)
(* C24 as stated: the derived ordering of a numeral type is the order of   *)
(* the integers: a < b under the derived comparison exactly when the value *)
(* of a, the sign applied to the magnitude, is less than that of b; and    *)
(* ShortScaleInt::MIN is less than or equal to, ShortScaleInt::MAX greater *)
(* than or equal to, every other ShortScaleInt.                            *)
(***************************************************************************)
\* the integer of a is less than the integer of b
C24_ValueLess(a, b) ==
    IF a.sign = "Neg" /\ b.sign = "Neg" THEN Lt(b.data, a.data)
    ELSE IF a.sign = "Neg" THEN TRUE
    ELSE IF b.sign = "Neg" THEN FALSE
    ELSE Lt(a.data, b.data)

\* C24 as stated: the derived comparison is the comparison of the integers
C24_OrderIsIntegerOrder ==
    pc = "compared" =>
        /\ op.variant = "Less" <=> C24_ValueLess(num.val, num.other)
        /\ num.val = ShortScaleInt_MIN => op.variant \in {"Less", "Equal"}
        /\ num.val = ShortScaleInt_MAX => op.variant \in {"Greater", "Equal"}

\* ShortScaleInt::MIN.cmp(&ShortScaleInt::from(-1)) is Greater
C24_Witness ==
    /\ pc = "compared"
    /\ num.val = ShortScaleInt_MIN
    /\ arg.other = [neg |-> TRUE, mag |-> Dec(1)]
    /\ num.other = [ty |-> "ShortScaleInt", sign |-> "Neg", data |-> Dec(1)]
    /\ op.variant = "Greater"
    /\ C24_ValueLess(num.val, num.other)

=============================================================================
